---- MODULE Spec2Model ----
(***************************************************************************)
(* CVSS-Server: the score engine (src/cvss.py) and the metric inference    *)
(* engine (src/document_processor.py).                                     *)
(*                                                                         *)
(* Python floats are modelled as exact decimals (Dec below).  Every weight *)
(* of cvss.py is a decimal literal, so the exact value of each expression  *)
(* of calculate_base_score is a finite decimal; over all 2592 weight       *)
(* combinations the exact value of min(raw, 10) * 10 is either exactly 100 *)
(* (the cap) or at least 4.0e-5 away from every integer, while the IEEE    *)
(* double evaluation is within 1e-13 of it, so math.ceil takes the same    *)
(* integer in both.                                                        *)
(***************************************************************************)
EXTENDS Integers, Sequences, FiniteSets, TLC

VARIABLES
    pc,             \* position of the caller
    metrics,        \* the dict passed to calculate_base_score, in insertion order
    result,         \* the (base_score, severity, vector) triple returned, or NoResult
    calls,          \* the completed calls of calculate_base_score: <<input, output>>
    cvss_patterns,  \* document_processor.cvss_patterns, the shared pattern table
    text,           \* the text of the document under analysis
    detected,       \* the dict detect_cvss_metrics returned
    cve_id,         \* what extract_cve_id returned: <<>> for None, <<id>> for a match
    title,          \* what extract_title returned, NoTitle before it is called
    DEPENDENCIES_AVAILABLE,  \* whether the import of docx, PyPDF2 and pdfplumber worked
    filename,       \* the name of the uploaded file
    file_content,   \* the uploaded file, NoFile without an upload
    document_analysis,  \* the dict process_document returned, <<>> for None
    content_type,   \* the Content-Type header of the request
    form_data,      \* the fields of the submitted form
    evaluations,    \* the rows insert_evaluation has written
    arg,            \* the argument of round_up and of severity_from_score
    rounded,        \* what round_up returned for it
    severity,       \* what severity_from_score returned for it
    req,            \* the requests served concurrently, each with its local variables
    auth_class,     \* the class of the authentication manager: AuthManager or SimpleAuth
    users,          \* the table users
    user_sessions,  \* the table user_sessions
    now,            \* datetime.now(), in days
    drawn,          \* the number of session tokens drawn so far
    inflight,       \* the register_user calls between their SELECT and their INSERT
    outcome,        \* the last call that returned: its arguments, what it returned and
                    \* whether it changed a table
    ledger          \* what has happened so far: the addresses registered, and the tokens
                    \* created, logged out and found expired

\* the variables of an upload, of the two scale functions, and the rest
upload == <<DEPENDENCIES_AVAILABLE, filename, file_content, document_analysis,
            content_type, form_data, evaluations>>

scale == <<arg, rounded, severity>>

auth == <<auth_class, users, user_sessions, now, drawn, inflight, outcome, ledger>>

vars == <<pc, metrics, result, calls, cvss_patterns, text, detected, cve_id, title,
          upload, scale, req, auth>>

-----------------------------------------------------------------------------
(* Exact decimal arithmetic: sgn * mag / 1000^exp, mag a little-endian      *)
(* sequence of base-1000 limbs.                                             *)

Limb == 10 ^ 3

RECURSIVE MNorm(_)
MNorm(a) ==
    IF a = <<>> THEN <<>>
    ELSE IF a[Len(a)] = 0 THEN MNorm(SubSeq(a, 1, Len(a) - 1))
    ELSE a

MLimb(a, i) == IF i >= 1 /\ i <= Len(a) THEN a[i] ELSE 0

RECURSIVE MCmpFrom(_, _, _)
MCmpFrom(a, b, i) ==
    IF i = 0 THEN 0
    ELSE IF MLimb(a, i) < MLimb(b, i) THEN -1
    ELSE IF MLimb(a, i) > MLimb(b, i) THEN 1
    ELSE MCmpFrom(a, b, i - 1)

MaxOf(m, n) == IF m >= n THEN m ELSE n

MCmp(a, b) == MCmpFrom(a, b, MaxOf(Len(a), Len(b)))

RECURSIVE MCarry(_, _, _)
MCarry(raw, i, carry) ==
    IF i > Len(raw)
    THEN (IF carry = 0 THEN <<>> ELSE <<carry % Limb>> \o MCarry(raw, i, carry \div Limb))
    ELSE LET t == raw[i] + carry
         IN  <<t % Limb>> \o MCarry(raw, i + 1, t \div Limb)

MAdd(a, b) ==
    MNorm(MCarry([i \in 1..MaxOf(Len(a), Len(b)) |-> MLimb(a, i) + MLimb(b, i)] \o <<>>, 1, 0))

RECURSIVE MBorrow(_, _, _, _)
MBorrow(a, b, i, borrow) ==
    IF i > Len(a) THEN <<>>
    ELSE LET d == a[i] - MLimb(b, i) - borrow
         IN  IF d < 0 THEN <<d + Limb>> \o MBorrow(a, b, i + 1, 1)
             ELSE <<d>> \o MBorrow(a, b, i + 1, 0)

MSub(a, b) == MNorm(MBorrow(a, b, 1, 0))

RECURSIVE MConv(_, _, _, _)
MConv(a, b, k, i) ==
    IF i > Len(a) \/ i > k THEN 0
    ELSE a[i] * MLimb(b, k - i + 1) + MConv(a, b, k, i + 1)

MMul(a, b) ==
    IF a = <<>> \/ b = <<>> THEN <<>>
    ELSE MNorm(MCarry([k \in 1..(Len(a) + Len(b)) |-> MConv(a, b, k, 1)] \o <<>>, 1, 0))

MShift(a, n) == IF a = <<>> THEN <<>> ELSE [i \in 1..n |-> 0] \o a

RECURSIVE MFromInt(_)
MFromInt(n) == IF n = 0 THEN <<>> ELSE <<n % Limb>> \o MFromInt(n \div Limb)

RECURSIVE MToInt(_)
MToInt(a) == IF a = <<>> THEN 0 ELSE a[1] + Limb * MToInt(Tail(a))

RECURSIVE DNormal(_)
DNormal(x) ==
    IF MNorm(x.mag) = <<>> THEN [sgn |-> 1, mag |-> <<>>, exp |-> 0]
    ELSE IF x.exp > 0 /\ x.mag[1] = 0
         THEN DNormal([sgn |-> x.sgn, mag |-> Tail(x.mag), exp |-> x.exp - 1])
         ELSE [sgn |-> x.sgn, mag |-> MNorm(x.mag), exp |-> x.exp]

Abs(n) == IF n < 0 THEN -n ELSE n

DInt(n) == [sgn |-> IF n < 0 THEN -1 ELSE 1, mag |-> MFromInt(Abs(n)), exp |-> 0]

\* the decimal literal whole.milli, e.g. Lit(8, 220) is 8.22
Lit(whole, milli) == DNormal([sgn |-> 1, mag |-> <<milli, whole>>, exp |-> 1])

DNeg(x) == IF x.mag = <<>> THEN x ELSE [x EXCEPT !.sgn = -x.sgn]

DScaled(x, e) == MShift(x.mag, e - x.exp)

DAdd(x, y) ==
    LET e == MaxOf(x.exp, y.exp)
        a == DScaled(x, e)
        b == DScaled(y, e)
    IN  IF x.sgn = y.sgn
        THEN DNormal([sgn |-> x.sgn, mag |-> MAdd(a, b), exp |-> e])
        ELSE IF MCmp(a, b) >= 0
             THEN DNormal([sgn |-> x.sgn, mag |-> MSub(a, b), exp |-> e])
             ELSE DNormal([sgn |-> y.sgn, mag |-> MSub(b, a), exp |-> e])

DSub(x, y) == DAdd(x, DNeg(y))

DMul(x, y) ==
    DNormal([sgn |-> x.sgn * y.sgn, mag |-> MMul(x.mag, y.mag), exp |-> x.exp + y.exp])

RECURSIVE DPow(_, _)
DPow(x, n) == IF n = 0 THEN DInt(1) ELSE DMul(x, DPow(x, n - 1))

\* -1, 0 or 1 as x is below, equal to or above y
DCmp(x, y) ==
    LET e == MaxOf(x.exp, y.exp)
        a == DScaled(x, e)
        b == DScaled(y, e)
    IN  IF x.sgn # y.sgn THEN (IF a = <<>> /\ b = <<>> THEN 0 ELSE x.sgn)
        ELSE x.sgn * MCmp(a, b)

DLe(x, y) == DCmp(x, y) <= 0

DEq(x, y) == DCmp(x, y) = 0

\* Python's min(x, y)
DMin(x, y) == IF DCmp(y, x) < 0 THEN y ELSE x

DIsInt(x) == DNormal(x).exp = 0

\* math.ceil
DCeil(x) ==
    LET n == DNormal(x)
        whole == MToInt(SubSeq(n.mag, n.exp + 1, Len(n.mag)))
    IN  IF n.exp = 0 THEN n.sgn * whole
        ELSE IF n.sgn = 1 THEN whole + 1
        ELSE -whole

\* n / 10.0 for an int n
DTenths(n) ==
    DNormal([sgn |-> IF n < 0 THEN -1 ELSE 1, mag |-> MFromInt(Abs(n) * 100), exp |-> 1])

-----------------------------------------------------------------------------
(* Python strings and dicts.  A dict is the sequence of its <<key, value>>  *)
(* items in insertion order, keys distinct.                                 *)

LowerCase == "abcdefghijklmnopqrstuvwxyz"

UpperCase == "ABCDEFGHIJKLMNOPQRSTUVWXYZ"

Chars(s) == {SubSeq(s, i, i) : i \in 1..Len(s)}

ToUpper ==
    [c \in Chars(LowerCase) |->
        LET i == CHOOSE j \in 1..Len(LowerCase) : SubSeq(LowerCase, j, j) = c
        IN  SubSeq(UpperCase, i, i)] @@ <<>>

ToLower ==
    [c \in Chars(UpperCase) |->
        LET i == CHOOSE j \in 1..Len(UpperCase) : SubSeq(UpperCase, j, j) = c
        IN  SubSeq(LowerCase, i, i)] @@ <<>>

\* str.upper(), by halves
RECURSIVE upper(_)
upper(s) ==
    IF s = "" THEN ""
    ELSE IF Len(s) = 1 THEN (IF s \in DOMAIN ToUpper THEN ToUpper[s] ELSE s)
    ELSE upper(SubSeq(s, 1, Len(s) \div 2)) \o upper(SubSeq(s, Len(s) \div 2 + 1, Len(s)))

\* str.lower(), by halves
RECURSIVE lower(_)
lower(s) ==
    IF s = "" THEN ""
    ELSE IF Len(s) = 1 THEN (IF s \in DOMAIN ToLower THEN ToLower[s] ELSE s)
    ELSE lower(SubSeq(s, 1, Len(s) \div 2)) \o lower(SubSeq(s, Len(s) \div 2 + 1, Len(s)))

\* s.split(sep) for a separator of one character: the pieces between its occurrences
Split(s, sep) ==
    LET at       == {p \in 1..Len(s) : SubSeq(s, p, p) = sep}
        n        == Cardinality(at)
        bound(k) == IF k = 0 THEN 0
                    ELSE IF k = n + 1 THEN Len(s) + 1
                    ELSE CHOOSE p \in at : Cardinality({q \in at : q < p}) = k - 1
    IN  [k \in 1..(n + 1) |-> SubSeq(s, bound(k - 1) + 1, bound(k) - 1)] \o <<>>

\* the whitespace of str.strip() and of \s, on ASCII text
SpaceChars == {" ", "\t", "\n", "\r", "\f"}

\* s.strip()
strip(s) ==
    LET inked == {p \in 1..Len(s) : SubSeq(s, p, p) \notin SpaceChars}
    IN  IF inked = {} THEN ""
        ELSE SubSeq(s, CHOOSE p \in inked : \A q \in inked : p <= q,
                       CHOOSE p \in inked : \A q \in inked : q <= p)

\* sub in s
Contains(s, sub) ==
    \E p \in 1..(Len(s) - Len(sub) + 1) : SubSeq(s, p, p + Len(sub) - 1) = sub

DictKeys(d) == {d[i][1] : i \in 1..Len(d)}

\* d[k], for k a key of d
DictAt(d, k) == d[CHOOSE i \in 1..Len(d) : d[i][1] = k][2]

\* d.get(k, default)
DictGet(d, k, default) == IF k \in DictKeys(d) THEN DictAt(d, k) ELSE default

\* d[k] = v: an existing key keeps its position
DictSet(d, k, v) ==
    IF k \in DictKeys(d)
    THEN LET i == CHOOSE j \in 1..Len(d) : d[j][1] = k
         IN  SubSeq(d, 1, i - 1) \o << <<k, v>> >> \o SubSeq(d, i + 1, Len(d))
    ELSE Append(d, <<k, v>>)

\* d.setdefault(k, v)
setdefault(d, k, v) == IF k \in DictKeys(d) THEN d ELSE Append(d, <<k, v>>)

\* {**d, **e}
RECURSIVE DictMerge(_, _)
DictMerge(d, e) ==
    IF e = <<>> THEN d
    ELSE DictMerge(DictSet(d, e[1][1], e[1][2]), Tail(e))

\* tbl.get(k, default) for a constant table
TableGet(tbl, k, default) == IF k \in DOMAIN tbl THEN tbl[k] ELSE default

-----------------------------------------------------------------------------
(* src/cvss.py                                                              *)

\* the eight metric codes, in the order build_vector and handle_evaluation use
Keys == <<"AV", "AC", "PR", "UI", "S", "C", "I", "A">>

KeySet == {Keys[i] : i \in 1..Len(Keys)}

\* round_up that rounds to the nearest tenth
round_nearest(value) == DTenths(DCeil(DSub(DMul(value, DInt(10)), Lit(0, 500))))

\* lines 16-18
round_up(value) == DTenths(DCeil(DMul(value, DInt(10))))

severity_from_score(score) ==
    IF DEq(score, Lit(0, 0)) THEN "None"
    ELSE IF DLe(Lit(0, 100), score) /\ DLe(score, Lit(3, 900)) THEN "Low"
    ELSE IF DLe(Lit(4, 0), score) /\ DLe(score, Lit(6, 900)) THEN "Medium"
    ELSE IF DLe(Lit(7, 0), score) /\ DLe(score, Lit(8, 900)) THEN "High"
    ELSE "Critical"

defaults ==
    << <<"AV", "L">>, <<"AC", "H">>, <<"PR", "N">>, <<"UI", "N">>,
       <<"S", "U">>, <<"C", "N">>, <<"I", "N">>, <<"A", "N">> >>

\* UpperDict that leaves the values as they are
RECURSIVE UpperDictKeysOnly(_, _)
UpperDictKeysOnly(acc, items) ==
    IF items = <<>> THEN acc
    ELSE UpperDictKeysOnly(DictSet(acc, upper(items[1][1]), items[1][2]), Tail(items))

\* {k.upper(): v.upper() for k, v in metrics.items()}
RECURSIVE UpperDict(_, _)
UpperDict(acc, items) ==
    IF items = <<>> THEN acc
    ELSE UpperDict(DictSet(acc, upper(items[1][1]), upper(items[1][2])), Tail(items))

build_vector(m0) ==
    LET m == DictMerge(defaults, UpperDict(<<>>, m0))
    IN  "CVSS:3.1"
        \o "/" \o "AV:" \o DictAt(m, "AV")
        \o "/" \o "AC:" \o DictAt(m, "AC")
        \o "/" \o "PR:" \o DictAt(m, "PR")
        \o "/" \o "UI:" \o DictAt(m, "UI")
        \o "/" \o "S:" \o DictAt(m, "S")
        \o "/" \o "C:" \o DictAt(m, "C")
        \o "/" \o "I:" \o DictAt(m, "I")
        \o "/" \o "A:" \o DictAt(m, "A")

\* {k.upper(): v.upper() for k, v in metrics.items() if v}
RECURSIVE TruthyItems(_)
TruthyItems(items) ==
    IF items = <<>> THEN <<>>
    ELSE IF items[1][2] # "" THEN <<items[1]>> \o TruthyItems(Tail(items))
    ELSE TruthyItems(Tail(items))

\* Normalized with the default AV = N
NormalizedNetworkDefault(m0) ==
    LET m1 == UpperDict(<<>>, TruthyItems(m0))
        m2 == setdefault(m1, "AV", "N")
        m3 == setdefault(m2, "AC", "H")
        m4 == setdefault(m3, "PR", "N")
        m5 == setdefault(m4, "UI", "N")
        m6 == setdefault(m5, "S", "U")
        m7 == setdefault(m6, "C", "N")
        m8 == setdefault(m7, "I", "N")
    IN  setdefault(m8, "A", "N")

\* lines 71-79: the normalised, default-filled dict m
Normalized(m0) ==
    LET m1 == UpperDict(<<>>, TruthyItems(m0))
        m2 == setdefault(m1, "AV", "L")
        m3 == setdefault(m2, "AC", "H")
        m4 == setdefault(m3, "PR", "N")
        m5 == setdefault(m4, "UI", "N")
        m6 == setdefault(m5, "S", "U")
        m7 == setdefault(m6, "C", "N")
        m8 == setdefault(m7, "I", "N")
    IN  setdefault(m8, "A", "N")

\* av_vals with the weights of N and P exchanged
av_vals_physical_easiest ==
    [N |-> Lit(0, 200), A |-> Lit(0, 620), L |-> Lit(0, 550), P |-> Lit(0, 850)]

av_vals == [N |-> Lit(0, 850), A |-> Lit(0, 620), L |-> Lit(0, 550), P |-> Lit(0, 200)]

ac_vals == [L |-> Lit(0, 770), H |-> Lit(0, 440)]

pr_vals ==
    [U |-> [N |-> Lit(0, 850), L |-> Lit(0, 620), H |-> Lit(0, 270)],
     C |-> [N |-> Lit(0, 850), L |-> Lit(0, 680), H |-> Lit(0, 500)]]

ui_vals == [N |-> Lit(0, 850), R |-> Lit(0, 620)]

impact_vals == [N |-> Lit(0, 0), L |-> Lit(0, 220), H |-> Lit(0, 560)]

\* ScopeOf that takes every value other than U as C
ScopeOfElseChanged(m) == IF DictAt(m, "S") = "U" THEN "U" ELSE "C"

\* line 92
ScopeOf(m) == IF DictAt(m, "S") \in {"U", "C"} THEN DictAt(m, "S") ELSE "U"

\* lines 90-97: the weights (av, ac, scope, pr, ui, c, i, a)
Weights(m) ==
    [av    |-> TableGet(av_vals, DictAt(m, "AV"), Lit(0, 550)),
     ac    |-> TableGet(ac_vals, DictAt(m, "AC"), Lit(0, 440)),
     scope |-> ScopeOf(m),
     pr    |-> TableGet(pr_vals[ScopeOf(m)], DictAt(m, "PR"), Lit(0, 850)),
     ui    |-> TableGet(ui_vals, DictAt(m, "UI"), Lit(0, 850)),
     c     |-> TableGet(impact_vals, DictAt(m, "C"), Lit(0, 0)),
     i     |-> TableGet(impact_vals, DictAt(m, "I"), Lit(0, 0)),
     a     |-> TableGet(impact_vals, DictAt(m, "A"), Lit(0, 0))]

Range(f) == {f[k] : k \in DOMAIN f}

\* every weight record lines 90-97 can produce
WeightSpace ==
    UNION { [av : Range(av_vals), ac : Range(ac_vals), scope : {s}, pr : Range(pr_vals[s]),
             ui : Range(ui_vals), c : Range(impact_vals), i : Range(impact_vals),
             a : Range(impact_vals)] : s \in DOMAIN pr_vals }

\* line 99
Exploitability(w) == DMul(DMul(DMul(DMul(Lit(8, 220), w.av), w.ac), w.pr), w.ui)

\* line 100
Impact(w) ==
    DSub(DInt(1), DMul(DMul(DSub(DInt(1), w.c), DSub(DInt(1), w.i)), DSub(DInt(1), w.a)))

\* (impact - 0.02) ** 15, evaluated once for each impact value that occurs
Pow15 ==
    [x \in {Impact(w) : w \in WeightSpace} |-> DPow(DSub(x, Lit(0, 20)), 15)] @@ <<>>

\* lines 101-104
ImpactSubscore(w) ==
    IF w.scope = "C"
    THEN DSub(DMul(Lit(7, 520), DSub(Impact(w), Lit(0, 29))),
              DMul(Lit(3, 250), Pow15[Impact(w)]))
    ELSE DMul(Lit(6, 420), Impact(w))

\* Raw without the scope-changed factor 1.08
RawUnscaled(w) == DAdd(ImpactSubscore(w), Exploitability(w))

\* lines 108-110
Raw(w) ==
    IF w.scope = "C"
    THEN DMul(DAdd(ImpactSubscore(w), Exploitability(w)), Lit(1, 80))
    ELSE DAdd(ImpactSubscore(w), Exploitability(w))

\* BaseScore without the cap of line 111
BaseScoreUncapped(w) ==
    IF DLe(Impact(w), DInt(0)) THEN Lit(0, 0)
    ELSE round_up(Raw(w))

\* BaseScore without the zero-impact case of lines 105-106
BaseScoreNoZeroCase(w) == round_up(DMin(Raw(w), DInt(10)))

\* lines 99-111
BaseScore(w) ==
    IF DLe(Impact(w), DInt(0)) THEN Lit(0, 0)
    ELSE round_up(DMin(Raw(w), DInt(10)))

\* calculate_base_score whose dict m starts from the input of the call before
calculate_base_score_keeping_m(m0) ==
    LET before     == IF calls = <<>> THEN <<>> ELSE calls[Len(calls)][1]
        m          == Normalized(DictMerge(before, m0))
        base_score == BaseScore(Weights(m))
    IN  <<base_score, severity_from_score(base_score), build_vector(m)>>

\* lines 61-115
calculate_base_score(m0) ==
    LET m          == Normalized(m0)
        base_score == BaseScore(Weights(m))
    IN  <<base_score, severity_from_score(base_score), build_vector(m)>>

-----------------------------------------------------------------------------
(* src/document_processor.py.  Every regular expression of cvss_patterns    *)
(* has the form \bw1\s+w2...\s+wn\b with w1..wn lower-case words; it is      *)
(* written here as the sequence <<w1, ..., wn>> and matched on characters.  *)

PatternTable ==
    [
     AV |->
        [
          N |-> << <<"network">>,
                   <<"remote">>,
                   <<"over", "network">>,
                   <<"network", "accessible">>,
                   <<"network", "based">> >>,
          A |-> << <<"adjacent">>,
                   <<"same", "network">>,
                   <<"local", "network">>,
                   <<"subnet">> >>,
          L |-> << <<"local">>,
                   <<"on", "system">>,
                   <<"requires", "local", "access">>,
                   <<"local", "access">> >>,
          P |-> << <<"physical">>,
                   <<"physical", "access">>,
                   <<"requires", "physical", "access">> >> ],
     AC |->
        [
          L |-> << <<"low", "complexity">>,
                   <<"simple">>,
                   <<"easy">>,
                   <<"trivial">>,
                   <<"low">>,
                   <<"simple", "to", "exploit">> >>,
          H |-> << <<"high", "complexity">>,
                   <<"complex">>,
                   <<"difficult">>,
                   <<"requires", "special">>,
                   <<"high">> >> ],
     PR |->
        [
          N |-> << <<"no", "privileges">>,
                   <<"unprivileged">>,
                   <<"no", "authentication">>,
                   <<"no", "privileges", "required">>,
                   <<"no", "privileges", "needed">> >>,
          L |-> << <<"low", "privileges">>,
                   <<"basic", "user">>,
                   <<"user", "level">>,
                   <<"low">> >>,
          H |-> << <<"high", "privileges">>,
                   <<"admin">>,
                   <<"root">>,
                   <<"elevated">>,
                   <<"high">> >> ],
     UI |->
        [
          N |-> << <<"no", "user", "interaction">>,
                   <<"automatic">>,
                   <<"no", "user", "action">>,
                   <<"no", "user", "interaction", "required">>,
                   <<"no", "user", "interaction", "needed">> >>,
          R |-> << <<"requires", "user", "interaction">>,
                   <<"user", "must", "click">>,
                   <<"user", "action">>,
                   <<"user", "interaction", "required">> >> ],
     S |->
        [
          U |-> << <<"unchanged", "scope">>,
                   <<"same", "component">>,
                   <<"within", "component">>,
                   <<"unchanged">>,
                   <<"same", "component">> >>,
          C |-> << <<"changed", "scope">>,
                   <<"different", "component">>,
                   <<"cross", "component">>,
                   <<"changed">>,
                   <<"different", "component">> >> ],
     C |->
        [
          N |-> << <<"no", "confidentiality", "impact">>,
                   <<"no", "data", "disclosure">>,
                   <<"no", "impact">>,
                   <<"none">>,
                   <<"no", "data", "leak">> >>,
          L |-> << <<"low", "confidentiality", "impact">>,
                   <<"minor", "data", "leak">>,
                   <<"low", "impact">>,
                   <<"minor">> >>,
          H |-> << <<"high", "confidentiality", "impact">>,
                   <<"complete", "data", "disclosure">>,
                   <<"high", "impact">>,
                   <<"complete">>,
                   <<"high">> >> ],
     I |->
        [
          N |-> << <<"no", "integrity", "impact">>,
                   <<"no", "data", "modification">>,
                   <<"no", "impact">>,
                   <<"none">>,
                   <<"no", "data", "modification">> >>,
          L |-> << <<"low", "integrity", "impact">>,
                   <<"minor", "data", "modification">>,
                   <<"low", "impact">>,
                   <<"minor">> >>,
          H |-> << <<"high", "integrity", "impact">>,
                   <<"complete", "data", "modification">>,
                   <<"high", "impact">>,
                   <<"complete">>,
                   <<"high">> >> ],
     A |->
        [
          N |-> << <<"no", "availability", "impact">>,
                   <<"no", "service", "disruption">>,
                   <<"no", "availability">>,
                   <<"none">>,
                   <<"no", "service", "disruption">> >>,
          L |-> << <<"low", "availability", "impact">>,
                   <<"minor", "service", "disruption">>,
                   <<"low", "availability">>,
                   <<"minor">> >>,
          H |-> << <<"high", "availability", "impact">>,
                   <<"complete", "service", "disruption">>,
                   <<"high", "availability">>,
                   <<"complete">>,
                   <<"high">>,
                   <<"high", "availability">> >> ] ]

\* the iteration order of cvss_patterns (lines 32-74)
MetricOrder == <<"AV", "AC", "PR", "UI", "S", "C", "I", "A">>

Digits == "0123456789"

\* \w on ASCII text
WordChars == Chars(LowerCase) \cup Chars(UpperCase) \cup Chars(Digits) \cup {"_"}

CharAt(t, p) == IF p >= 1 /\ p <= Len(t) THEN SubSeq(t, p, p) ELSE ""

\* \b as it would be if every position were a boundary
WordBoundaryAnywhere(t, p) == TRUE

\* \b between the characters p - 1 and p
WordBoundary(t, p) == (CharAt(t, p - 1) \in WordChars) # (CharAt(t, p) \in WordChars)

\* the length of the run of whitespace that starts at p
SpaceRun(t, p) ==
    CHOOSE n \in 0..(Len(t) + 1) :
        /\ \A j \in 0..(n - 1) : CharAt(t, p + j) \in SpaceChars
        /\ CharAt(t, p + n) \notin SpaceChars

\* the position after w1\s+...\s+wn matched from p, or 0 when it does not match there;
\* the word after \s+ starts with a letter, so \s+ takes the whole run
RECURSIVE MatchWords(_, _, _, _)
MatchWords(words, i, t, p) ==
    LET w == words[i]
        q == p + Len(w)
    IN  IF q - 1 > Len(t) \/ SubSeq(t, p, q - 1) # w THEN 0
        ELSE IF i = Len(words) THEN q
        ELSE IF SpaceRun(t, q) = 0 THEN 0
        ELSE MatchWords(words, i + 1, t, q + SpaceRun(t, q))

MatchAt(words, t, p) ==
    /\ WordBoundary(t, p)
    /\ LET q == MatchWords(words, 1, t, p)
       IN  q # 0 /\ WordBoundary(t, q)

\* the positions where a word starts: \b followed by a letter matches nowhere else
WordStarts(t) == {p \in 1..Len(t) : CharAt(t, p) \in WordChars /\ WordBoundary(t, p)}

\* re.search(pattern, subject) is not None, for a subject already case-folded and the
\* positions where its words start
re_search(words, subject, starts) == \E p \in starts : MatchAt(words, subject, p)

\* priority_order without the candidate P of AV
priority_order_without_physical(metric) ==
    IF metric \in {"C", "I", "A"} THEN <<"H", "L", "N">>
    ELSE IF metric = "AV" THEN <<"N", "A", "L">>
    ELSE IF metric = "AC" THEN <<"L", "H">>
    ELSE IF metric = "PR" THEN <<"N", "L", "H">>
    ELSE IF metric = "UI" THEN <<"N", "R">>
    ELSE <<"U", "C">>

\* priority_order with the candidates of PR in the order L, N, H
priority_order_low_first(metric) ==
    IF metric \in {"C", "I", "A"} THEN <<"H", "L", "N">>
    ELSE IF metric = "AV" THEN <<"N", "A", "L", "P">>
    ELSE IF metric = "AC" THEN <<"L", "H">>
    ELSE IF metric = "PR" THEN <<"L", "N", "H">>
    ELSE IF metric = "UI" THEN <<"N", "R">>
    ELSE <<"U", "C">>

\* line 140
priority_order(metric) ==
    IF metric \in {"C", "I", "A"} THEN <<"H", "L", "N">>
    ELSE IF metric = "AV" THEN <<"N", "A", "L", "P">>
    ELSE IF metric = "AC" THEN <<"L", "H">>
    ELSE IF metric = "PR" THEN <<"N", "L", "H">>
    ELSE IF metric = "UI" THEN <<"N", "R">>
    ELSE <<"U", "C">>

AnyPattern(patterns, subject, starts) ==
    \E j \in 1..Len(patterns) : re_search(patterns[j], subject, starts)

\* lines 142-152: the first value of the order with a matching pattern, <<>> when none
RECURSIVE FirstMatch(_, _, _, _, _)
FirstMatch(values, order, i, subject, starts) ==
    IF i > Len(order) THEN <<>>
    ELSE IF order[i] \in DOMAIN values /\ AnyPattern(values[order[i]], subject, starts)
         THEN <<order[i]>>
         ELSE FirstMatch(values, order, i + 1, subject, starts)

\* DetectMetric that gives a metric without a match the default of calculate_base_score
DetectMetricOrDefault(values, metric, subject, starts) ==
    LET found == FirstMatch(values, priority_order(metric), 1, subject, starts)
    IN  IF found = <<>> THEN <<DictAt(defaults, metric)>> ELSE found

\* DetectMetric that takes the value with the most matching patterns, the earlier one
\* of the order among equals
DetectMetricByCount(values, metric, subject, starts) ==
    LET order    == priority_order(metric)
        count(i) == Cardinality({j \in 1..Len(values[order[i]]) :
                                     re_search(values[order[i]][j], subject, starts)})
        found    == {i \in 1..Len(order) : order[i] \in DOMAIN values /\ count(i) > 0}
    IN  IF found = {} THEN <<>>
        ELSE LET best == CHOOSE i \in found :
                             \A j \in found :
                                 count(i) > count(j) \/ (count(i) = count(j) /\ i <= j)
             IN  <<order[best]>>

\* lines 137-152, for one metric
DetectMetric(values, metric, subject, starts) ==
    FirstMatch(values, priority_order(metric), 1, subject, starts)

\* lines 136-158: the detected items, in the order of the table
RECURSIVE DetectFrom(_, _, _, _)
DetectFrom(table, i, subject, starts) ==
    IF i > Len(MetricOrder) THEN <<>>
    ELSE LET metric == MetricOrder[i]
             found  == DetectMetric(table[metric], metric, subject, starts)
         IN  (IF found = <<>> THEN <<>> ELSE << <<metric, found[1]>> >>)
             \o DetectFrom(table, i + 1, subject, starts)

\* text is lowered (line 129) and searched with re.IGNORECASE (line 146), which folds
\* the case of the subject again
detect_cvss_metrics(table, t) ==
    LET text_lower == lower(t)
        subject    == lower(text_lower)
    IN  DetectFrom(table, 1, subject, WordStarts(subject))

\* the number of digits that start at p, at most max
DigitRun(t, p, max) ==
    CHOOSE n \in 0..max :
        /\ \A j \in 0..(n - 1) : CharAt(t, p + j) \in Chars(Digits)
        /\ n = max \/ CharAt(t, p + n) \notin Chars(Digits)

\* CveMatchLen without re.IGNORECASE
CveMatchLenUpperCase(t, p) ==
    IF /\ p + 8 <= Len(t)
       /\ SubSeq(t, p, p + 3) = "CVE-"
       /\ DigitRun(t, p + 4, 4) = 4
       /\ CharAt(t, p + 8) = "-"
       /\ DigitRun(t, p + 9, 7) >= 4
    THEN 9 + DigitRun(t, p + 9, 7)
    ELSE 0

\* the length of the match of CVE-\d{4}-\d{4,7} at p under re.IGNORECASE, 0 when none
CveMatchLen(t, p) ==
    IF /\ p + 8 <= Len(t)
       /\ lower(SubSeq(t, p, p + 3)) = "cve-"
       /\ DigitRun(t, p + 4, 4) = 4
       /\ CharAt(t, p + 8) = "-"
       /\ DigitRun(t, p + 9, 7) >= 4
    THEN 9 + DigitRun(t, p + 9, 7)
    ELSE 0

\* lines 160-164
extract_cve_id(t) ==
    LET starts == {p \in 1..Len(t) : CveMatchLen(t, p) > 0}
    IN  IF starts = {} THEN <<>>
        ELSE LET p == CHOOSE q \in starts : \A r \in starts : q <= r
             IN  <<SubSeq(t, p, p + CveMatchLen(t, p) - 1)>>

\* line 173
headers == <<"abstract", "summary", "introduction", "description">>

\* extract_title that takes lines of 10 and of 200 characters too
extract_title_inclusive_limits(t) ==
    LET lines == Split(t, "\n")
        fit   == {i \in 1..Len(lines) :
                     LET line == strip(lines[i])
                     IN  /\ line # "" /\ Len(line) >= 10 /\ Len(line) <= 200
                         /\ \A h \in 1..Len(headers) : ~Contains(lower(line), headers[h])}
    IN  IF fit = {} THEN "Document Analysis"
        ELSE strip(lines[CHOOSE i \in fit : \A j \in fit : i <= j])

\* extract_title that stops at the first line of more than 10 characters
extract_title_first_long_line(t) ==
    LET lines == Split(t, "\n")
        long  == {i \in 1..Len(lines) : Len(strip(lines[i])) > 10}
    IN  IF long = {} THEN "Document Analysis"
        ELSE LET line == strip(lines[CHOOSE i \in long : \A j \in long : i <= j])
             IN  IF Len(line) < 200
                    /\ \A h \in 1..Len(headers) : ~Contains(lower(line), headers[h])
                 THEN line
                 ELSE "Document Analysis"

\* lines 166-175
extract_title(t) ==
    LET lines == Split(t, "\n")
        fit   == {i \in 1..Len(lines) :
                     LET line == strip(lines[i])
                     IN  /\ line # "" /\ Len(line) > 10 /\ Len(line) < 200
                         /\ \A h \in 1..Len(headers) : ~Contains(lower(line), headers[h])}
    IN  IF fit = {} THEN "Document Analysis"
        ELSE LET line == strip(lines[CHOOSE i \in fit : \A j \in fit : i <= j])
             IN  SubSeq(line, 1, IF Len(line) < 200 THEN Len(line) ELSE 200)

\* s.endswith(suffix)
endswith(s, suffix) ==
    Len(s) >= Len(suffix) /\ SubSeq(s, Len(s) - Len(suffix) + 1, Len(s)) = suffix

\* how a call ends: with a value, or with an exception and its message
Returns(x) == <<"return", x>>

Raises(type, message) == <<"raise", type, message>>

\* str(e) of the exception a library raises on a file it cannot read
LibraryError == "<library error>"

\* lines 77-89.  The uploaded bytes are the record of what the libraries make of them:
\* kind "docx" is a Word file python-docx reads, "pdf" a PDF pdfplumber reads,
\* "pdf_plain" a PDF only PyPDF2 reads, "junk" a file no library reads; text is the
\* text they extract
extract_text_from_docx(content) ==
    IF ~DEPENDENCIES_AVAILABLE THEN Raises("ImportError", "python-docx not available")
    ELSE IF content.kind = "docx" THEN Returns(content.text)
    ELSE Raises("ValueError", "Error reading Word document: " \o LibraryError)

\* lines 91-114
extract_text_from_pdf(content) ==
    IF ~DEPENDENCIES_AVAILABLE THEN Raises("ImportError", "PyPDF2/pdfplumber not available")
    ELSE IF content.kind = "pdf" THEN Returns(content.text)
    ELSE IF content.kind = "pdf_plain" THEN Returns(content.text)
    ELSE Raises("ValueError", "Error reading PDF document: " \o LibraryError)

\* extract_text_from_file that tests the name as it is written
extract_text_from_file_case_sensitive(content, name) ==
    IF endswith(name, ".docx") THEN extract_text_from_docx(content)
    ELSE IF endswith(name, ".pdf") THEN extract_text_from_pdf(content)
    ELSE Raises("ValueError", "Unsupported file type: " \o name)

\* lines 116-125
extract_text_from_file(content, name) ==
    LET filename_lower == lower(name)
    IN  IF endswith(filename_lower, ".docx") THEN extract_text_from_docx(content)
        ELSE IF endswith(filename_lower, ".pdf") THEN extract_text_from_pdf(content)
        ELSE Raises("ValueError", "Unsupported file type: " \o name)

\* lines 177-204: every exception of the try block is caught
process_document(content, name) ==
    LET extracted == extract_text_from_file(content, name)
    IN  IF extracted[1] = "raise"
        THEN << <<"success", FALSE>>, <<"error", extracted[3]>>, <<"filename", name>> >>
        ELSE LET t == extracted[2]
             IN  << <<"success", TRUE>>,
                    <<"text", IF Len(t) > 1000 THEN SubSeq(t, 1, 1000) \o "..." ELSE t>>,
                    <<"metrics", detect_cvss_metrics(cvss_patterns, t)>>,
                    <<"cve_id", extract_cve_id(t)>>,
                    <<"title", extract_title(t)>>,
                    <<"filename", name>> >>

-----------------------------------------------------------------------------
(* src/server.py, handle_evaluation: the POST of the evaluation form.     *)

\* lines 2050-2053 as they would read if a field of the form were kept
RECURSIVE Prefill_keeping_form(_, _)
Prefill_keeping_form(form, detected_metrics) ==
    IF detected_metrics = <<>> THEN form
    ELSE Prefill_keeping_form(
             IF detected_metrics[1][1] \in DictKeys(form) THEN form
             ELSE DictSet(form, detected_metrics[1][1], detected_metrics[1][2]),
             Tail(detected_metrics))

\* lines 2050-2053: every detected value replaces the form's value
RECURSIVE Prefill(_, _)
Prefill(form, detected_metrics) ==
    IF detected_metrics = <<>> THEN form
    ELSE Prefill(DictSet(form, detected_metrics[1][1], detected_metrics[1][2]),
                 Tail(detected_metrics))

\* lines 2084-2085, form.get(key, [""])[0]: a multipart field is a str, and [0]
\* is its first character
get_value(form, key) ==
    IF key \in DictKeys(form) THEN SubSeq(DictAt(form, key), 1, 1) ELSE ""

\* lines 2088-2090
FormMetrics(form) ==
    [i \in 1..Len(Keys) |-> <<Keys[i], get_value(form, Keys[i])>>] \o <<>>

\* line 1994, the two kinds of request body the handler tells apart
Multipart == "multipart/form-data"

UrlEncoded == "application/x-www-form-urlencoded"

\* lines 2002 and 2030-2032: uploaded_file stays None without a file part, and
\* with an empty one
NoFile == [kind |-> "none", text |-> ""]

\* lines 2042-2071, the analysis of the uploaded file: None without a file or
\* a file name.  process_document raises nothing, so the except branch of
\* lines 2065-2071 is never taken.
AnalyseUpload(content, name) ==
    IF content # NoFile /\ name # "" THEN process_document(content, name) ELSE <<>>

Succeeded(analysis) == analysis # <<>> /\ DictAt(analysis, "success")

\* lines 2046-2064, the form after the pre-fill from a successful analysis
PrefillForm(form, analysis) ==
    IF ~Succeeded(analysis) THEN form
    ELSE LET with_metrics == Prefill(form, DictAt(analysis, "metrics"))
             with_title == IF DictAt(analysis, "title") # ""
                           THEN DictSet(with_metrics, "title", DictAt(analysis, "title"))
                           ELSE with_metrics
         IN  IF DictAt(analysis, "cve_id") # <<>>
             THEN DictSet(with_title, "cve_id", DictAt(analysis, "cve_id")[1])
             ELSE with_title

\* lines 2084-2085 on the dict parse_qs returns (lines 2079-2082): a field is
\* the list of its values, and [0] is the first value, here the only one
get_first_value(form, key) == IF key \in DictKeys(form) THEN DictAt(form, key) ELSE ""

\* lines 1997-2082, form_data when the fields are read: pre-filled for a
\* multipart request, as parse_qs returned it otherwise
FilledForm(ctype, form, analysis) ==
    IF ctype = Multipart THEN PrefillForm(form, analysis) ELSE form

\* lines 2084-2085 on either kind of form_data
FieldValue(ctype, form, key) ==
    IF ctype = Multipart THEN get_value(form, key) ELSE get_first_value(form, key)

\* lines 2087-2090
RequestMetrics(ctype, form) ==
    [i \in 1..Len(Keys) |-> <<Keys[i], FieldValue(ctype, form, Keys[i])>>] \o <<>>

\* lines 2093-2104, the row passed to insert_evaluation
EvaluationRow(ctype, form, m, scored) ==
    [title |-> strip(FieldValue(ctype, form, "title")),
     cve_id |-> strip(FieldValue(ctype, form, "cve_id")),
     source |-> strip(FieldValue(ctype, form, "source")),
     metrics |-> m,
     vector |-> scored[3],
     base_score |-> scored[1],
     severity |-> scored[2]]

-----------------------------------------------------------------------------
(* src/auth.py and src/simple_auth.py.  A table is the sequence of its rows  *)
(* in the order of their insertion; a time is a whole number of days; a      *)
(* session token is the number of its draw (secrets.token_urlsafe(32): no    *)
(* draw repeats an earlier one).                                             *)

AuthManager == "AuthManager"

SimpleAuth == "SimpleAuth"

\* auth.py line 129, simple_auth.py line 115: timedelta(days=7)
SessionDays == 7

\* hash_password and verify_password: a hash verifies the password it was
\* made from, and no other
hash_password(password) == <<"hash", password>>

verify_password(password, password_hash) == password_hash = <<"hash", password>>

\* generate_session_token as it would be if it returned the same token every time
generate_session_token_repeating(draws) == 1

\* auth.py lines 68-70, simple_auth.py line 114: the token drawn after so many draws
generate_session_token(draws) == draws + 1

\* SELECT ... FROM users WHERE email = ?: the rows, at most one
UsersByEmail(utable, address) == SelectSeq(utable, LAMBDA row : row.email = address)

\* the constraint of a table without UNIQUE on email
EmailFree(utable, address) == TRUE

\* email TEXT UNIQUE (auth.py line 28, simple_auth.py line 26): whether the
\* INSERT of a row with this address is accepted
EmailUnique(utable, address) == UsersByEmail(utable, address) = <<>>

\* register_user up to the check (auth.py lines 79-81, simple_auth.py lines
\* 72-74): whether the SELECT finds the user
UserExists(utable, email) == UsersByEmail(utable, lower(email)) # <<>>

\* register_user from the INSERT on (auth.py lines 84-100, simple_auth.py
\* lines 77-89): the dict returned and the table left
InsertUser(cls, utable, email, password, full_name) ==
    IF ~EmailUnique(utable, lower(email))
    THEN [ret |-> [success |-> FALSE, error |-> "UNIQUE constraint failed: users.email"],
          users |-> utable]
    ELSE LET user_id == Len(utable) + 1
         IN  [ret |-> IF cls = AuthManager
                      THEN [success |-> TRUE, user_id |-> user_id,
                            message |-> "User registered successfully"]
                      ELSE [success |-> TRUE, user_id |-> user_id],
              users |-> Append(utable, [id |-> user_id,
                                        email |-> lower(email),
                                        password_hash |-> hash_password(password),
                                        full_name |-> full_name,
                                        last_login |-> <<>>,
                                        is_active |-> TRUE])]

\* authenticate_user that writes the session before it verifies the password
authenticate_user_session_first(cls, utable, stable, clock, draws, email, password) ==
    LET found == UsersByEmail(utable, lower(email))
        session_token == generate_session_token(draws)
    IN  IF found = <<>>
        THEN [ret |-> [success |-> FALSE, error |-> "Invalid credentials"],
              users |-> utable, user_sessions |-> stable]
        ELSE [ret |-> IF verify_password(password, found[1].password_hash)
                      THEN [success |-> TRUE, user_id |-> found[1].id,
                            email |-> found[1].email, full_name |-> found[1].full_name,
                            session_token |-> session_token]
                      ELSE [success |-> FALSE, error |-> "Invalid credentials"],
              users |-> utable,
              user_sessions |-> Append(stable, [user_id |-> found[1].id,
                                                session_token |-> session_token,
                                                expires_at |-> clock + SessionDays])]

\* auth.py lines 102-154, simple_auth.py lines 91-133: the dict returned and
\* the two tables left.  SimpleAuth has no is_active and no last_login.
authenticate_user(cls, utable, stable, clock, draws, email, password) ==
    LET found == UsersByEmail(utable, lower(email))
        unchanged(error) == [ret |-> [success |-> FALSE, error |-> error],
                             users |-> utable, user_sessions |-> stable]
        session_token == generate_session_token(draws)
    IN  IF found = <<>> THEN unchanged("Invalid credentials")
        ELSE IF cls = AuthManager /\ ~found[1].is_active
        THEN unchanged("Account is deactivated")
        ELSE IF ~verify_password(password, found[1].password_hash)
        THEN unchanged("Invalid credentials")
        ELSE IF \E n \in 1..Len(stable) : stable[n].session_token = session_token
        THEN unchanged("UNIQUE constraint failed: user_sessions.session_token")
        ELSE [ret |-> IF cls = AuthManager
                      THEN [success |-> TRUE, user_id |-> found[1].id,
                            email |-> found[1].email, full_name |-> found[1].full_name,
                            session_token |-> session_token,
                            expires_at |-> clock + SessionDays]
                      ELSE [success |-> TRUE, user_id |-> found[1].id,
                            email |-> found[1].email, full_name |-> found[1].full_name,
                            session_token |-> session_token],
              users |-> IF cls = AuthManager
                        THEN [n \in 1..Len(utable) |->
                                 IF utable[n].id = found[1].id
                                 THEN [utable[n] EXCEPT !.last_login = <<clock>>]
                                 ELSE utable[n]] \o <<>>
                        ELSE utable,
              user_sessions |-> Append(stable, [user_id |-> found[1].id,
                                                session_token |-> session_token,
                                                expires_at |-> clock + SessionDays])]

\* validate_session as None, for Optional[Dict]
None == [none |-> TRUE]

\* the test of expiry as it would be if no session expired
ExpiredNever(clock, expires_at) == FALSE

\* auth.py line 177, simple_auth.py line 155
Expired(clock, expires_at) == clock > expires_at

\* DELETE FROM user_sessions WHERE session_token = ?
DeleteSession(stable, session_token) ==
    SelectSeq(stable, LAMBDA row : row.session_token # session_token)

\* auth.py lines 156-191, simple_auth.py lines 135-169: what is returned and
\* the sessions left
validate_session(cls, utable, stable, clock, session_token) ==
    LET joined == { <<u, n>> \in (1..Len(utable)) \X (1..Len(stable)) :
                        /\ utable[u].id = stable[n].user_id
                        /\ stable[n].session_token = session_token
                        /\ (cls = AuthManager => utable[u].is_active) }
    IN  IF joined = {} THEN [ret |-> None, user_sessions |-> stable]
        ELSE LET un == CHOOSE pair \in joined : TRUE
             IN  IF Expired(clock, stable[un[2]].expires_at)
                 THEN [ret |-> None, user_sessions |-> DeleteSession(stable, session_token)]
                 ELSE [ret |-> [user_id |-> utable[un[1]].id,
                                email |-> utable[un[1]].email,
                                full_name |-> utable[un[1]].full_name],
                       user_sessions |-> stable]

\* auth.py lines 193-203
logout_user(stable, session_token) ==
    [ret |-> TRUE, user_sessions |-> DeleteSession(stable, session_token)]

\* auth.py lines 205-213: DELETE FROM user_sessions WHERE expires_at <
\* CURRENT_TIMESTAMP, in whole days
cleanup_expired_sessions(stable, clock) ==
    SelectSeq(stable, LAMBDA row : ~(row.expires_at < clock))

-----------------------------------------------------------------------------
(* The callers' inputs.                                                     *)

\* the values each metric's weight table knows
Legal(k) ==
    IF k = "AV" THEN DOMAIN av_vals
    ELSE IF k = "AC" THEN DOMAIN ac_vals
    ELSE IF k = "PR" THEN DOMAIN pr_vals["U"]
    ELSE IF k = "UI" THEN DOMAIN ui_vals
    ELSE IF k = "S" THEN DOMAIN pr_vals
    ELSE DOMAIN impact_vals

Absent == "<absent>"

Present(item) == item[2] # Absent

\* the dict with the given value for each key, in the order of Keys, without the absent ones
Dict8(av, ac, pr, ui, s, c, i, a) ==
    SelectSeq(<< <<"AV", av>>, <<"AC", ac>>, <<"PR", pr>>, <<"UI", ui>>,
                 <<"S", s>>, <<"C", c>>, <<"I", i>>, <<"A", a>> >>, Present)

\* every fully specified legal input
FullLegal ==
    { Dict8(av, ac, pr, ui, s, c, i, a) :
        av \in Legal("AV"), ac \in Legal("AC"), pr \in Legal("PR"), ui \in Legal("UI"),
        s \in Legal("S"), c \in Legal("C"), i \in Legal("I"), a \in Legal("A") }

\* every subset of the keys, each present key with a legal value that is not its default
PartialLegal ==
    { Dict8(av, ac, pr, ui, s, c, i, a) :
        av \in {Absent, "N"}, ac \in {Absent, "L"}, pr \in {Absent, "H"}, ui \in {Absent, "R"},
        s \in {Absent, "C"}, c \in {Absent, "H"}, i \in {Absent, "L"}, a \in {Absent, "H"} }

\* every subset of the keys, each present key with such a value or an unrecognized one
Partial ==
    { Dict8(av, ac, pr, ui, s, c, i, a) :
        av \in {Absent, "X", "N"}, ac \in {Absent, "X", "L"}, pr \in {Absent, "X", "H"},
        ui \in {Absent, "X", "R"}, s \in {Absent, "X", "C"}, c \in {Absent, "X", "H"},
        i \in {Absent, "X", "L"}, a \in {Absent, "X", "H"} }

Reverse(d) == [i \in 1..Len(d) |-> d[Len(d) + 1 - i]] \o <<>>

LowerItems(d) == [i \in 1..Len(d) |-> <<lower(d[i][1]), lower(d[i][2])>>] \o <<>>

\* lower-case keys and values, in the reverse key order
Reordered == { Reverse(LowerItems(d)) : d \in PartialLegal }

AllHigh == Dict8("N", "L", "N", "N", "C", "H", "H", "H")

\* one value that is the empty string (an unset form field) or "N/A", the text the
\* pages show for a metric without a value
Oddities ==
    { DictSet(d, k, v) : d \in {<<>>, AllHigh}, k \in KeySet, v \in {"", "N/A"} }

\* the same key in both letter cases
Doubled ==
    { << <<"av", "n">>, <<"AV", "P">>, <<"C", "H">> >>,
      << <<"C", "L">>, <<"s", "c">>, <<"S", "U">>, <<"c", "h">> >> }

\* lower case in the keys only, in the values only, in some of each
MixedCase ==
    { << <<"av", "N">>, <<"c", "H">>, <<"s", "C">> >>,
      << <<"AV", "n">>, <<"C", "h">>, <<"PR", "l">> >>,
      << <<"Av", "N">>, <<"c", "H">>, <<"I", "l">>, <<"ui", "R">> >> }

ScoreInputs == FullLegal \cup Partial \cup Reordered \cup Oddities \cup Doubled \cup MixedCase

NoResult == <<>>

\* inputs of the callers that call more than once
CallInputs ==
    { <<>>, AllHigh, Dict8("N", "L", Absent, Absent, "X", "H", Absent, Absent),
      << <<"c", "h">>, <<"av", "p">> >>, << <<"AV", "P">>, <<"C", "H">> >> }

MaxCalls == 3

\* the longest text of words, in words
MaxWords == 3

Vocabulary ==
    {"network", "local", "physical", "low", "high", "complexity", "minor", "none",
     "changed", "unchanged"}

RECURSIVE Join(_, _)
Join(words, sep) ==
    IF words = <<>> THEN ""
    ELSE IF Len(words) = 1 THEN words[1]
    ELSE words[1] \o sep \o Join(Tail(words), sep)

\* up to MaxWords words of the vocabulary, a blank between two words
WordTexts == { Join(ws, " ") : ws \in UNION { [1..n -> Vocabulary] : n \in 0..MaxWords } }

\* the phrase of each pattern of the table, alone
PatternTexts ==
    { Join(PatternTable[m][v][j], " ") :
        <<m, v, j>> \in { <<m, v, j>> \in KeySet \X {"N", "A", "L", "P", "H", "R", "U", "C"} \X (1..6) :
                            v \in DOMAIN PatternTable[m] /\ j <= Len(PatternTable[m][v]) } }

ReportText ==
    "This vulnerability allows remote attackers to execute code over the network. "
    \o "The attack complexity is low. No privileges are required. "
    \o "No user interaction is needed. Scope is changed. "
    \o "Complete data disclosure, data modification, and service disruption are possible."

SpecialTexts ==
    { ReportText,
      "Buffer overflow in the parser (CVE-2021-44228) lets a Remote user gain ROOT",
      "cve-2020-12345678 needs Physical\taccess and\nhigh  privileges",
      "locally highlighted, unchanged-scope; same\nnetwork",
      "CVE-20-1234 and CVE-2019-123: nothing recognizable here",
      "see cVe-1999-0001x, then CVE-2024-1234567",
      "CVE-2019-123 is not one, xcve-2019-12345 holds one",
      "Locally exploitable: a HIGHLIGHT of the Unchanged report",
      "the subnetwork is unchanged, no_privileges required, remotely or local9",
      "Requires  LOCAL\n\tAccess; Scope IS Changed" }

\* n letters without a blank
RECURSIVE Fill(_)
Fill(n) ==
    IF n = 0 THEN "" ELSE IF n = 1 THEN "x" ELSE Fill(n \div 2) \o Fill(n - n \div 2)

\* texts of several lines, with lines at the limits of the length of a title
TitleTexts ==
    { "Hello world, this is a plain document",
      "short\nAbstraction layer problem found\nA real title line here\nAnother line here",
      "SUMMARY of the thing here\r\nSecond line is the title\r\n",
      "\n\n   \nIntroduction\nDescription of the flaw\n0123456789\n",
      "   eleven chrs \t\nten chars.",
      Fill(10), Fill(11),
      "  " \o Fill(199) \o " \t\nlater line of the text",
      Fill(200) \o "\nlater line of the text",
      Fill(200) \o "\n  " \o Fill(10) \o "  " }

Texts == WordTexts \cup PatternTexts \cup SpecialTexts \cup TitleTexts

-----------------------------------------------------------------------------
(* One call of calculate_base_score on an input of ScoreInputs.             *)

NoTitle == ""

NoUpload ==
    /\ DEPENDENCIES_AVAILABLE = TRUE
    /\ filename = ""
    /\ file_content = NoFile
    /\ document_analysis = <<>>
    /\ content_type = Multipart
    /\ form_data = <<>>
    /\ evaluations = <<>>

NoScale ==
    /\ arg = Lit(0, 0)
    /\ rounded = Lit(0, 0)
    /\ severity = ""

NoLedger == [registered |-> <<>>, created |-> {}, logged_out |-> {}, expired |-> {}]

NoOutcome == [op |-> "none"]

\* before the first call of the authentication manager
NoAuth ==
    /\ auth_class = AuthManager
    /\ users = <<>>
    /\ user_sessions = <<>>
    /\ now = 0
    /\ drawn = 0
    /\ inflight = <<>>
    /\ outcome = NoOutcome
    /\ ledger = NoLedger

NoDocument ==
    /\ calls = <<>>
    /\ cvss_patterns = PatternTable
    /\ text = ""
    /\ detected = <<>>
    /\ cve_id = <<>>
    /\ title = NoTitle
    /\ NoUpload
    /\ req = <<>>

Idle == NoDocument /\ NoScale /\ NoAuth

Init ==
    /\ pc = "call"
    /\ metrics \in ScoreInputs
    /\ result = NoResult
    /\ Idle

CalculateBaseScore ==
    /\ pc = "call"
    /\ result' = calculate_base_score(metrics)
    /\ calls' = Append(calls, <<metrics, result'>>)
    /\ pc' = "done"
    /\ UNCHANGED <<metrics, cvss_patterns, text, detected, cve_id, title, upload, scale, req, auth>>

Next == CalculateBaseScore

Spec == Init /\ [][Next]_vars

-----------------------------------------------------------------------------
(* Up to MaxCalls calls of calculate_base_score, one after the other.       *)

InitCalls ==
    /\ pc = "call"
    /\ metrics \in CallInputs
    /\ result = NoResult
    /\ Idle

NextCall(m) ==
    /\ pc = "done"
    /\ Len(calls) < MaxCalls
    /\ metrics' = m
    /\ pc' = "call"
    /\ UNCHANGED <<result, calls, cvss_patterns, text, detected, cve_id, title, upload, scale, req, auth>>

NextCalls == CalculateBaseScore \/ \E m \in CallInputs : NextCall(m)

SpecCalls == InitCalls /\ [][NextCalls]_vars

-----------------------------------------------------------------------------
(* The analysis of one uploaded document: detect_cvss_metrics and           *)
(* extract_cve_id on its text, then the score of what was detected.         *)

InitInfer ==
    /\ pc = "text"
    /\ text \in Texts
    /\ metrics = <<>>
    /\ result = NoResult
    /\ calls = <<>>
    /\ cvss_patterns = PatternTable
    /\ detected = <<>>
    /\ cve_id = <<>>
    /\ title = NoTitle
    /\ NoUpload
    /\ NoScale
    /\ NoAuth
    /\ req = <<>>

DetectCvssMetrics ==
    /\ pc = "text"
    /\ detected' = detect_cvss_metrics(cvss_patterns, text)
    /\ pc' = "detected"
    /\ UNCHANGED <<metrics, result, calls, cvss_patterns, text, cve_id, title, upload, scale, req, auth>>

ExtractCveId ==
    /\ pc = "detected"
    /\ cve_id' = extract_cve_id(text)
    /\ pc' = "extracted"
    /\ UNCHANGED <<metrics, result, calls, cvss_patterns, text, detected, title, upload, scale, req, auth>>

ExtractTitle ==
    /\ pc = "extracted"
    /\ title' = extract_title(text)
    /\ pc' = "titled"
    /\ UNCHANGED <<metrics, result, calls, cvss_patterns, text, detected, cve_id, upload, scale,
                   req, auth>>

\* handle_evaluation with an upload and no metric chosen in the form: the detected
\* values pre-fill the form, and the form's eight metrics go to calculate_base_score
ScoreDetected ==
    /\ pc = "titled"
    /\ metrics' = FormMetrics(Prefill(<<>>, detected))
    /\ pc' = "call"
    /\ UNCHANGED <<result, calls, cvss_patterns, text, detected, cve_id, title, upload, scale, req, auth>>

NextInfer ==
    DetectCvssMetrics \/ ExtractCveId \/ ExtractTitle \/ ScoreDetected \/ CalculateBaseScore

SpecInfer == InitInfer /\ [][NextInfer]_vars

-----------------------------------------------------------------------------
(* One call of round_up or of severity_from_score on a value.               *)

\* the largest whole part of a value
MaxWhole == 11

\* the thousandths of a value: every hundredth, and thousandths next to the tenths
Thousandths == {m \in 0..999 : m % 10 = 0 \/ m % 100 \in {1, 5, 99}}

Values == {Lit(whole, milli) : whole \in 0..MaxWhole, milli \in Thousandths}

InitScale ==
    /\ pc = "value"
    /\ arg \in Values
    /\ rounded = Lit(0, 0)
    /\ severity = ""
    /\ metrics = <<>>
    /\ result = NoResult
    /\ NoDocument
    /\ NoAuth

RoundUp ==
    /\ pc = "value"
    /\ rounded' = round_up(arg)
    /\ pc' = "rounded"
    /\ UNCHANGED <<metrics, result, calls, cvss_patterns, text, detected, cve_id, title,
                   upload, arg, severity, req, auth>>

SeverityFromScore ==
    /\ pc = "value"
    /\ severity' = severity_from_score(arg)
    /\ pc' = "rated"
    /\ UNCHANGED <<metrics, result, calls, cvss_patterns, text, detected, cve_id, title,
                   upload, arg, rounded, req, auth>>

NextScale == RoundUp \/ SeverityFromScore

SpecScale == InitScale /\ [][NextScale]_vars

-----------------------------------------------------------------------------
(* One call of process_document on an uploaded file.                        *)

Filenames ==
    {"report.docx", "Report.DOCX", "advisory.pdf", "Scan.Pdf", "notes.txt",
     "report.pdf.zip", "docx", ""}

\* the texts of the uploaded documents
UploadTexts ==
    { "", ReportText,
      "Buffer overflow in the parser (CVE-2021-44228) lets a Remote user gain ROOT",
      "SUMMARY of the thing here\r\nSecond line is the title\r\n",
      "Hello world, this is a plain document",
      "low high complexity" }

FileContents ==
    [kind : {"docx", "pdf", "pdf_plain"}, text : UploadTexts] \cup {[kind |-> "junk", text |-> ""]}

InitProcess ==
    /\ pc = "upload"
    /\ DEPENDENCIES_AVAILABLE \in BOOLEAN
    /\ filename \in Filenames
    /\ file_content \in FileContents
    /\ document_analysis = <<>>
    /\ content_type = Multipart
    /\ form_data = <<>>
    /\ evaluations = <<>>
    /\ metrics = <<>>
    /\ result = NoResult
    /\ calls = <<>>
    /\ cvss_patterns = PatternTable
    /\ text = ""
    /\ detected = <<>>
    /\ cve_id = <<>>
    /\ title = NoTitle
    /\ NoScale
    /\ NoAuth
    /\ req = <<>>

ProcessDocument ==
    /\ pc = "upload"
    /\ document_analysis' = process_document(file_content, filename)
    /\ pc' = "processed"
    /\ UNCHANGED <<metrics, result, calls, cvss_patterns, text, detected, cve_id, title,
                   DEPENDENCIES_AVAILABLE, filename, file_content, content_type,
                   form_data, evaluations, scale, req, auth>>

NextProcess == ProcessDocument

SpecProcess == InitProcess /\ [][NextProcess]_vars

-----------------------------------------------------------------------------
(* One POST of the evaluation form, served by handle_evaluation.            *)

\* the metric fields of a form: every select of the form is required, so a
\* browser sends all eight; a hand-made request may send fewer
CautiousChoice ==
    << <<"AV", "P">>, <<"AC", "H">>, <<"PR", "H">>, <<"UI", "R">>,
       <<"S", "U">>, <<"C", "N">>, <<"I", "L">>, <<"A", "N">> >>

AlarmedChoice ==
    << <<"AV", "N">>, <<"AC", "L">>, <<"PR", "N">>, <<"UI", "N">>,
       <<"S", "C">>, <<"C", "H">>, <<"I", "H">>, <<"A", "H">> >>

Forms ==
    { CautiousChoice \o << <<"title", "  Parser overflow ">>, <<"source", "Internal">> >>,
      AlarmedChoice \o << <<"cve_id", "CVE-2020-0001">> >>,
      << <<"AV", "L">>, <<"C", "L">>, <<"title", "Hand-made request">> >>,
      <<>> }

UploadNames == {"report.docx", "advisory.pdf", "notes.txt", ""}

Uploads == FileContents \cup {NoFile}

InitUpload ==
    /\ pc = "post"
    /\ DEPENDENCIES_AVAILABLE \in BOOLEAN
    /\ content_type \in {Multipart, UrlEncoded}
    /\ form_data \in Forms
    /\ filename \in UploadNames
    /\ file_content \in Uploads
    /\ document_analysis = <<>>
    /\ evaluations = <<>>
    /\ metrics = <<>>
    /\ result = NoResult
    /\ calls = <<>>
    /\ cvss_patterns = PatternTable
    /\ text = ""
    /\ detected = <<>>
    /\ cve_id = <<>>
    /\ title = NoTitle
    /\ NoScale
    /\ NoAuth
    /\ req = <<>>

\* lines 1991-2104.  form_data keeps the fields as they were submitted; the
\* pre-filled copy is local to the handler.
HandleEvaluation ==
    /\ pc = "post"
    /\ document_analysis' = IF content_type = Multipart
                            THEN AnalyseUpload(file_content, filename) ELSE <<>>
    /\ metrics' = RequestMetrics(content_type,
                                 FilledForm(content_type, form_data, document_analysis'))
    /\ result' = calculate_base_score(metrics')
    /\ evaluations' =
           Append(evaluations,
                  EvaluationRow(content_type,
                                FilledForm(content_type, form_data, document_analysis'),
                                metrics', result'))
    /\ pc' = "stored"
    /\ UNCHANGED <<calls, cvss_patterns, text, detected, cve_id, title,
                   DEPENDENCIES_AVAILABLE, filename, file_content, content_type,
                   form_data, scale, req, auth>>

NextUpload == HandleEvaluation

SpecUpload == InitUpload /\ [][NextUpload]_vars

-----------------------------------------------------------------------------
(* Requests served at the same time.  server.py serves each request on a    *)
(* thread of its own (ThreadingHTTPServer), and every thread calls the one   *)
(* document_processor of the module; a step below is what one thread does    *)
(* between two points where another thread may run.                          *)

NRequests == 2

Requests == 1..NRequests

ThreadTexts ==
    { "Remote root exploit, CVE-2021-44228, no user interaction",
      "Summary\nLocal access needed for cve-2019-0001\nhigh complexity",
      "nothing to see" }

\* the locals of one request, before its first call
NewRequest(t) ==
    [pc |-> "start", text |-> t, text_lower |-> "", detected_metrics |-> <<>>, i |-> 1,
     detected |-> <<>>, cve_id |-> <<>>, title |-> NoTitle, metrics |-> <<>>,
     result |-> NoResult, overlapped |-> FALSE]

\* where the locals of detect_cvss_metrics would live if they were attributes
\* of the shared processor
LocalsOnProcessor(r) == 1

\* lines 129-130: text_lower and detected_metrics are locals of the call, so
\* each request has its own
Locals(r) == r

\* whether another request is between its first and its last step
Overlaps(r) == \E u \in Requests \ {r} : req[u].pc \notin {"start", "done"}

InitThreads ==
    /\ pc = "serve"
    /\ req \in [Requests -> {NewRequest(t) : t \in ThreadTexts}]
    /\ metrics = <<>>
    /\ result = NoResult
    /\ calls = <<>>
    /\ cvss_patterns = PatternTable
    /\ text = ""
    /\ detected = <<>>
    /\ cve_id = <<>>
    /\ title = NoTitle
    /\ NoUpload
    /\ NoScale
    /\ NoAuth

\* what no step of a request touches
ThreadFrame ==
    UNCHANGED <<pc, metrics, result, calls, cvss_patterns, text, detected, cve_id, title,
                upload, scale, auth>>

\* detect_cvss_metrics, lines 129-130
StartDetection(r) ==
    /\ req[r].pc = "start"
    /\ req' = [req EXCEPT ![Locals(r)].text_lower = lower(req[r].text),
                          ![Locals(r)].detected_metrics = <<>>,
                          ![r].i = 1,
                          ![r].pc = "detect",
                          ![r].overlapped = @ \/ Overlaps(r)]
    /\ ThreadFrame

\* detect_cvss_metrics, lines 136-155: one turn of the loop over the metrics
DetectNextMetric(r) ==
    /\ req[r].pc = "detect"
    /\ LET metric == MetricOrder[req[r].i]
           subject == lower(req[Locals(r)].text_lower)
           found == DetectMetric(cvss_patterns[metric], metric, subject, WordStarts(subject))
       IN  req' = [req EXCEPT ![Locals(r)].detected_metrics =
                                  IF found = <<>> THEN @ ELSE DictSet(@, metric, found[1]),
                              ![r].i = @ + 1,
                              ![r].pc = IF req[r].i = Len(MetricOrder) THEN "return"
                                        ELSE "detect",
                              ![r].overlapped = @ \/ Overlaps(r)]
    /\ ThreadFrame

\* detect_cvss_metrics, line 158
ReturnDetected(r) ==
    /\ req[r].pc = "return"
    /\ req' = [req EXCEPT ![r].detected = req[Locals(r)].detected_metrics,
                          ![r].pc = "cve",
                          ![r].overlapped = @ \/ Overlaps(r)]
    /\ ThreadFrame

RequestCveId(r) ==
    /\ req[r].pc = "cve"
    /\ req' = [req EXCEPT ![r].cve_id = extract_cve_id(req[r].text),
                          ![r].pc = "title",
                          ![r].overlapped = @ \/ Overlaps(r)]
    /\ ThreadFrame

RequestTitle(r) ==
    /\ req[r].pc = "title"
    /\ req' = [req EXCEPT ![r].title = extract_title(req[r].text),
                          ![r].pc = "score",
                          ![r].overlapped = @ \/ Overlaps(r)]
    /\ ThreadFrame

\* the form pre-filled with what was detected, and its score
RequestScore(r) ==
    /\ req[r].pc = "score"
    /\ LET m == FormMetrics(Prefill(<<>>, req[r].detected))
       IN  req' = [req EXCEPT ![r].metrics = m,
                              ![r].result = calculate_base_score(m),
                              ![r].pc = "done",
                              ![r].overlapped = @ \/ Overlaps(r)]
    /\ ThreadFrame

NextThreads ==
    \E r \in Requests :
        \/ StartDetection(r)
        \/ DetectNextMetric(r)
        \/ ReturnDetected(r)
        \/ RequestCveId(r)
        \/ RequestTitle(r)
        \/ RequestScore(r)

SpecThreads == InitThreads /\ [][NextThreads]_vars

-----------------------------------------------------------------------------
(* Calls of the authentication manager.  A register_user call is two steps, *)
(* its SELECT and its INSERT, and other register_user calls may run between  *)
(* the two (SpecRegister).  With two users registered, the calls about       *)
(* sessions run in any order on successive days, each one transaction        *)
(* (SpecAuth).                                                               *)

MaxInflight == 3

MaxTokens == 2

\* the days on which calls are made: the first day, the last day of a
\* session of the first day, and the day after
Days == <<0, SessionDays, SessionDays + 1>>

Emails == {"Ann@X.org", "ann@x.org", "bob@x.org"}

\* the password every user registers with, and a wrong one
Password == "secret1"

Passwords == {Password, "guess00"}

FullName == "A. User"

\* the tokens a client can present: those drawn so far, and one never drawn
Presentable == 0..drawn

RemoveAt(seq, n) == SubSeq(seq, 1, n - 1) \o SubSeq(seq, n + 1, Len(seq))

\* the table users after the registration of two users
Registered(cls) ==
    InsertUser(cls, InsertUser(cls, <<>>, "Ann@X.org", Password, FullName).users,
               "bob@x.org", Password, FullName).users

\* an address nobody registered
Stranger == "carol@x.org"

InitRegister ==
    /\ pc = "register"
    /\ auth_class \in {AuthManager, SimpleAuth}
    /\ users = <<>>
    /\ user_sessions = <<>>
    /\ now = 0
    /\ drawn = 0
    /\ inflight = <<>>
    /\ outcome = NoOutcome
    /\ ledger = NoLedger
    /\ metrics = <<>>
    /\ result = NoResult
    /\ calls = <<>>
    /\ cvss_patterns = PatternTable
    /\ text = ""
    /\ detected = <<>>
    /\ cve_id = <<>>
    /\ title = NoTitle
    /\ NoUpload
    /\ NoScale
    /\ req = <<>>

InitAuth ==
    /\ pc = "auth"
    /\ auth_class \in {AuthManager, SimpleAuth}
    /\ users = Registered(auth_class)
    /\ user_sessions = <<>>
    /\ now = 0
    /\ drawn = 0
    /\ inflight = <<>>
    /\ outcome = NoOutcome
    /\ ledger = NoLedger
    /\ metrics = <<>>
    /\ result = NoResult
    /\ calls = <<>>
    /\ cvss_patterns = PatternTable
    /\ text = ""
    /\ detected = <<>>
    /\ cve_id = <<>>
    /\ title = NoTitle
    /\ NoUpload
    /\ NoScale
    /\ req = <<>>

\* what no call of the authentication manager touches
AuthFrame ==
    UNCHANGED <<pc, metrics, result, calls, cvss_patterns, text, detected, cve_id, title,
                upload, scale, req, auth_class>>

\* register_user, to the check of lines 79-81 (72-74 in simple_auth.py)
RegisterCheck(email) ==
    /\ pc = "register"
    /\ IF UserExists(users, email)
       THEN /\ outcome' = [op |-> "register_user", email |-> email,
                           ret |-> [success |-> FALSE, error |-> "User already exists"],
                           changed |-> FALSE]
            /\ UNCHANGED inflight
       ELSE /\ Len(inflight) < MaxInflight
            /\ inflight' = Append(inflight, email)
            /\ UNCHANGED outcome
    /\ UNCHANGED <<users, user_sessions, now, drawn, ledger>>
    /\ AuthFrame

\* register_user, from the INSERT on
RegisterInsert(n) ==
    /\ pc = "register"
    /\ n \in 1..Len(inflight)
    /\ LET inserted == InsertUser(auth_class, users, inflight[n], Password, FullName)
       IN  /\ users' = inserted.users
           /\ outcome' = [op |-> "register_user", email |-> inflight[n],
                          ret |-> inserted.ret,
                          changed |-> inserted.users # users]
           /\ ledger' = IF inserted.ret.success
                        THEN [ledger EXCEPT !.registered = Append(@, inflight[n])]
                        ELSE ledger
    /\ inflight' = RemoveAt(inflight, n)
    /\ UNCHANGED <<user_sessions, now, drawn>>
    /\ AuthFrame

AuthenticateUser(email, password) ==
    /\ pc = "auth"
    /\ drawn < MaxTokens
    /\ LET done == authenticate_user(auth_class, users, user_sessions, now, drawn,
                                     email, password)
       IN  /\ users' = done.users
           /\ user_sessions' = done.user_sessions
           /\ outcome' = [op |-> "authenticate_user", email |-> email,
                          password |-> password, ret |-> done.ret,
                          changed |-> done.users # users
                                      \/ done.user_sessions # user_sessions]
           /\ drawn' = IF done.ret.success THEN drawn + 1 ELSE drawn
           /\ ledger' = IF done.ret.success
                        THEN [ledger EXCEPT !.created =
                                 @ \cup {[session_token |-> done.ret.session_token,
                                          user_id |-> done.ret.user_id,
                                          at |-> now]}]
                        ELSE ledger
    /\ UNCHANGED <<now, inflight>>
    /\ AuthFrame

ValidateSession(session_token) ==
    /\ pc = "auth"
    /\ session_token \in Presentable
    /\ LET done == validate_session(auth_class, users, user_sessions, now, session_token)
       IN  /\ user_sessions' = done.user_sessions
           /\ outcome' = [op |-> "validate_session", session_token |-> session_token,
                          ret |-> done.ret,
                          changed |-> done.user_sessions # user_sessions]
           /\ ledger' = IF done.user_sessions # user_sessions
                        THEN [ledger EXCEPT !.expired = @ \cup {session_token}]
                        ELSE ledger
    /\ UNCHANGED <<users, now, drawn, inflight>>
    /\ AuthFrame

\* SimpleAuth has no logout_user
LogoutUser(session_token) ==
    /\ pc = "auth"
    /\ auth_class = AuthManager
    /\ session_token \in Presentable
    /\ LET done == logout_user(user_sessions, session_token)
       IN  /\ user_sessions' = done.user_sessions
           /\ outcome' = [op |-> "logout_user", session_token |-> session_token,
                          ret |-> done.ret, before |-> user_sessions]
           /\ ledger' = IF done.ret
                        THEN [ledger EXCEPT !.logged_out = @ \cup {session_token}]
                        ELSE ledger
    /\ UNCHANGED <<users, now, drawn, inflight>>
    /\ AuthFrame

\* SimpleAuth has no cleanup_expired_sessions
CleanupExpiredSessions ==
    /\ pc = "auth"
    /\ auth_class = AuthManager
    /\ user_sessions' = cleanup_expired_sessions(user_sessions, now)
    /\ outcome' = [op |-> "cleanup_expired_sessions"]
    /\ UNCHANGED <<users, now, drawn, inflight, ledger>>
    /\ AuthFrame

\* an account is deactivated in the table: auth.py has the column and reads
\* it, and no function that writes it
Deactivate(user_id) ==
    /\ pc = "auth"
    /\ auth_class = AuthManager
    /\ user_id \in 1..Len(users)
    /\ users[user_id].is_active
    /\ users' = [users EXCEPT ![user_id].is_active = FALSE]
    /\ outcome' = NoOutcome
    /\ UNCHANGED <<user_sessions, now, drawn, inflight, ledger>>
    /\ AuthFrame

\* time passes, to the next of the days
Pass(day) ==
    /\ pc = "auth"
    /\ day \in 1..(Len(Days) - 1)
    /\ now = Days[day]
    /\ now' = Days[day + 1]
    /\ outcome' = NoOutcome
    /\ UNCHANGED <<users, user_sessions, drawn, inflight, ledger>>
    /\ AuthFrame

NextRegister ==
    \/ \E email \in Emails : RegisterCheck(email)
    \/ \E n \in 1..MaxInflight : RegisterInsert(n)

SpecRegister == InitRegister /\ [][NextRegister]_vars

Logins == {"ANN@x.org", "bob@x.org", Stranger}

UserIds == {1, 2}

NextAuth ==
    \/ \E email \in Logins, password \in Passwords : AuthenticateUser(email, password)
    \/ \E session_token \in 0..MaxTokens : ValidateSession(session_token)
    \/ \E session_token \in 0..MaxTokens : LogoutUser(session_token)
    \/ CleanupExpiredSessions
    \/ \E user_id \in UserIds : Deactivate(user_id)
    \/ \E day \in 1..Len(Days) : Pass(day)

SpecAuth == InitAuth /\ [][NextAuth]_vars

-----------------------------------------------------------------------------
(* Properties of calculate_base_score, under Spec.                          *)

Returned == pc = "done"

\* the metric codes the input gives, in either letter case
GivenKeys(d) == {upper(d[i][1]) : i \in 1..Len(d)}

\* the severity bands of the rating scale, in tenths
Bands ==
    { [name |-> "None", lo |-> 0, hi |-> 0], [name |-> "Low", lo |-> 1, hi |-> 39],
      [name |-> "Medium", lo |-> 40, hi |-> 69], [name |-> "High", lo |-> 70, hi |-> 89],
      [name |-> "Critical", lo |-> 90, hi |-> 100] }

InBand(score, b) == DLe(DTenths(b.lo), score) /\ DLe(score, DTenths(b.hi))

\* C1: the base score returned is a multiple of 0.1 in [0.0, 10.0] and the severity
\* returned is the name of the one band of the rating scale that contains it.
C1_ScoreRangeAndSeverity ==
    Returned =>
        /\ DIsInt(DMul(result[1], DInt(10)))
        /\ DLe(DInt(0), result[1]) /\ DLe(result[1], DInt(10))
        /\ Cardinality({b \in Bands : InBand(result[1], b)}) = 1
        /\ \A b \in Bands : InBand(result[1], b) => result[2] = b.name

C1_Witness ==
    /\ Returned
    /\ \E i \in 1..Len(metrics) : metrics[i][2] = "X"
    /\ Len(metrics) < Len(Keys)
    /\ result[2] = "High"

\* the input gives C, I and A as N, explicitly or by leaving them out
NoImpactGiven(d) ==
    \A i \in 1..Len(d) : upper(d[i][1]) \in {"C", "I", "A"} => d[i][2] \in {"N", "n"}

\* C2: when C, I and A are all N, given or defaulted, the base score is 0.0 and the
\* severity None, whatever AV, AC, PR, UI and S are.
C2_ZeroImpact ==
    (Returned /\ NoImpactGiven(metrics)) => (DEq(result[1], DInt(0)) /\ result[2] = "None")

C2_Witness ==
    /\ Returned
    /\ NoImpactGiven(metrics)
    /\ DictKeys(metrics) = KeySet
    /\ DictAt(metrics, "S") = "C" /\ DictAt(metrics, "AV") = "N" /\ DictAt(metrics, "PR") = "L"

\* the input with every key it omits appended with its documented default
RECURSIVE WithDefaults(_, _)
WithDefaults(d, i) ==
    IF i > Len(defaults) THEN d
    ELSE IF defaults[i][1] \in GivenKeys(d) THEN WithDefaults(d, i + 1)
    ELSE WithDefaults(Append(d, defaults[i]), i + 1)

DefaultVector == "CVSS:3.1/AV:L/AC:H/PR:N/UI:N/S:U/C:N/I:N/A:N"

\* C3: an input that omits keys returns the same triple as the input that gives each
\* omitted key its default; the empty input returns 0.0, None and the default vector.
C3_OmittedKeysTakeDefaults ==
    Returned =>
        /\ result = calculate_base_score(WithDefaults(metrics, 1))
        /\ metrics = <<>> =>
               (DEq(result[1], DInt(0)) /\ result[2] = "None" /\ result[3] = DefaultVector)

C3_Witness ==
    /\ Returned
    /\ GivenKeys(metrics) = {"C", "S", "PR"}
    /\ result[2] = "Medium"

\* the legal value that carries the weight an unrecognized value of the metric is given
DefaultWeightValue(k) ==
    IF k = "AV" THEN "L" ELSE IF k = "AC" THEN "H" ELSE IF k = "S" THEN "U" ELSE "N"

Unrecognized(item) ==
    upper(item[1]) \in KeySet /\ upper(item[2]) \notin Legal(upper(item[1]))

ReplaceValue(d, i, v) == SubSeq(d, 1, i - 1) \o << <<d[i][1], v>> >> \o SubSeq(d, i + 1, Len(d))

\* C4: a value outside its metric's legal set gives the base score and severity of the
\* legal value with that metric's default weight, the other metrics being equal.
C4_UnrecognizedValueScoresAsDefault ==
    Returned =>
        \A i \in 1..Len(metrics) :
            Unrecognized(metrics[i]) =>
                LET other == calculate_base_score(
                                 ReplaceValue(metrics, i, DefaultWeightValue(upper(metrics[i][1]))))
                IN  result[1] = other[1] /\ result[2] = other[2]

C4_Witness ==
    /\ Returned
    /\ DictKeys(metrics) = KeySet
    /\ DictAt(metrics, "S") = "X" /\ DictAt(metrics, "PR") = "H" /\ DictAt(metrics, "AV") = "X"
    /\ result[2] = "Medium"

ScoredValue(m, k) ==
    IF DictAt(m, k) \in Legal(k) THEN DictAt(m, k) ELSE DefaultWeightValue(k)

RECURSIVE ScoredTokens(_, _)
ScoredTokens(m, i) ==
    IF i > Len(Keys) THEN ""
    ELSE "/" \o Keys[i] \o ":" \o ScoredValue(m, Keys[i]) \o ScoredTokens(m, i + 1)

\* C23: every CODE:VALUE token of the vector returned carries a legal value
\* of its metric, the one whose weight was used for the score; an
\* unrecognized scope, scored as U, shows as S:U.
C23_VectorShowsScoredValues ==
    Returned => result[3] = "CVSS:3.1" \o ScoredTokens(Normalized(metrics), 1)

\* C24: for a mapping whose keys are among the eight metric codes, the empty
\* string among its values included, build_vector called on the mapping
\* returns the vector calculate_base_score returns for it.
C24_BuildVectorAgrees ==
    (Returned /\ DictKeys(metrics) \subseteq KeySet) => build_vector(metrics) = result[3]

\* the legal values of a metric from the least to the most severe: harder to
\* easier exploitation, lower to higher impact
Severer(k) ==
    IF k = "AV" THEN <<"P", "L", "A", "N">>
    ELSE IF k = "AC" THEN <<"H", "L">>
    ELSE IF k = "PR" THEN <<"H", "L", "N">>
    ELSE IF k = "UI" THEN <<"R", "N">>
    ELSE <<"N", "L", "H">>

\* the inputs that differ from d in one metric other than S, which has the
\* next more severe value
RaisedByOne(d) ==
    { DictSet(d, k, Severer(k)[n + 1]) :
        <<k, n>> \in { kn \in (KeySet \ {"S"}) \X (1..3) :
                         /\ kn[2] < Len(Severer(kn[1]))
                         /\ Severer(kn[1])[kn[2]] = DictAt(d, kn[1]) } }

FullyLegal(d) ==
    /\ DictKeys(d) = KeySet /\ Len(d) = Len(Keys)
    /\ \A k \in KeySet : DictAt(d, k) \in Legal(k)

\* C25: over the legal values the base score is monotone in every metric:
\* with the other metrics fixed, for S = U and for S = C, the next higher
\* value of C, I or A (N, L, H), and the next easier value of AV (P, L, A, N),
\* AC (H, L), PR (H, L, N) or UI (R, N) never lowers the base score.
C25_ScoreMonotone ==
    (Returned /\ FullyLegal(metrics)) =>
        \A raised \in RaisedByOne(metrics) :
            DLe(result[1], calculate_base_score(raised)[1])

\* an input with a step that raises the score and, the impact not being
\* zero, a step that leaves it where it is
C25_Witness ==
    /\ Returned /\ FullyLegal(metrics)
    /\ DictAt(metrics, "S") = "C"
    /\ ~DEq(result[1], DInt(0))
    /\ \E raised \in RaisedByOne(metrics) :
           ~DLe(calculate_base_score(raised)[1], result[1])
    /\ \E raised \in RaisedByOne(metrics) :
           DEq(calculate_base_score(raised)[1], result[1])

\* C5: the vector returned is "CVSS:3.1" and eight CODE:VALUE tokens joined by "/", in
\* the order AV, AC, PR, UI, S, C, I, A; split back, the tokens give the upper-case,
\* default-filled metrics that were scored.
C5_VectorRoundTrip ==
    Returned =>
        LET tokens == Split(result[3], "/")
            m      == Normalized(metrics)
        IN  /\ Len(tokens) = 1 + Len(Keys)
            /\ tokens[1] = "CVSS:3.1"
            /\ \A i \in 1..Len(Keys) :
                   Split(tokens[i + 1], ":") = <<Keys[i], DictAt(m, Keys[i])>>

\* the input with every key and value in upper case
UpperCased(d) == [i \in 1..Len(d) |-> <<upper(d[i][1]), upper(d[i][2])>>] \o <<>>

\* C17: an input with keys or values in lower case returns the triple of the same input
\* in upper case, and the vector shows every value in upper case.
C17_CaseNormalized ==
    (Returned /\ Cardinality(GivenKeys(metrics)) = Len(metrics)) =>
        /\ result = calculate_base_score(UpperCased(metrics))
        /\ result[3] = upper(result[3])

C17_Witness ==
    /\ Returned
    /\ \E i, j \in 1..Len(metrics) :
           /\ metrics[i] = <<"av", "n">>
           /\ metrics[j] = <<"c", "h">>
    /\ metrics # UpperCased(metrics)
    /\ result[2] = "High"

-----------------------------------------------------------------------------
(* Properties of a series of calls, under SpecCalls.                        *)

-----------------------------------------------------------------------------
(* Properties of the analysis of a document, under SpecInfer.               *)

\* detect_cvss_metrics has just returned
Detected == pc = "detected"

\* the pairs <<value, j>> of a metric such that pattern j of the candidate value
\* matches the text
MatchesOf(metric, t) ==
    LET values  == cvss_patterns[metric]
        subject == lower(t)
        starts  == WordStarts(subject)
    IN  {vj \in UNION {{v} \X (1..Len(values[v])) : v \in DOMAIN values} :
             re_search(values[vj[1]][vj[2]], subject, starts)}

\* the patterns of a candidate value that match the text
MatchingPatterns(metric, value, t) == {vj \in MatchesOf(metric, t) : vj[1] = value}

\* the candidate values of a metric with a pattern that matches the text
MatchingValues(metric, t) == {vj[1] : vj \in MatchesOf(metric, t)}

CandidateOrder(metric) ==
    IF metric = "AV" THEN <<"N", "A", "L", "P">>
    ELSE IF metric = "AC" THEN <<"L", "H">>
    ELSE IF metric = "PR" THEN <<"N", "L", "H">>
    ELSE IF metric = "UI" THEN <<"N", "R">>
    ELSE IF metric = "S" THEN <<"U", "C">>
    ELSE <<"H", "L", "N">>

\* the position of a value in a sequence without repetitions
IndexOf(order, value) == CHOOSE i \in 1..Len(order) : order[i] = value

\* the element of the set that comes first in the order
FirstOf(order, values) ==
    order[CHOOSE i \in 1..Len(order) :
              order[i] \in values /\ \A j \in 1..(i - 1) : order[j] \notin values]

C10_ExampleReport ==
    text = ReportText =>
        /\ pc # "text" => detected = AllHigh
        /\ pc \in {"extracted", "titled", "call", "done"} => cve_id = <<>>
        /\ Returned =>
               /\ metrics = AllHigh
               /\ result[2] = "Critical"
               /\ result[3] = "CVSS:3.1/AV:N/AC:L/PR:N/UI:N/S:C/C:H/I:H/A:H"

C10_Witness ==
    /\ text = ReportText
    /\ Returned
    /\ cve_id = <<>>
    /\ DEq(result[1], DInt(10))

\* the phrase of pattern j of a candidate value, alone
PhraseOf(metric, value, j) == Join(cvss_patterns[metric][value][j], " ")

\* the pairs <<metric, value>> that have the text as the phrase of one of their patterns
PhraseOwners(t) ==
    {mv \in UNION {{k} \X DOMAIN cvss_patterns[k] : k \in KeySet} :
         \E j \in 1..Len(cvss_patterns[mv[1]][mv[2]]) : PhraseOf(mv[1], mv[2], j) = t}

\* C12: the table has patterns for exactly the legal values of every metric, and every
\* value has a pattern whose phrase alone is detected as that value of the metric (so
\* for the value of each phrase a document can consist of).
C12_TableCoverage ==
    Detected =>
        /\ \A k \in KeySet : DOMAIN cvss_patterns[k] = Legal(k)
        /\ \A mv \in PhraseOwners(text) :
               \E j \in 1..Len(cvss_patterns[mv[1]][mv[2]]) :
                   DictGet(detect_cvss_metrics(cvss_patterns, PhraseOf(mv[1], mv[2], j)),
                           mv[1], "") = mv[2]

\* the text is a phrase of a value that an earlier candidate of the metric pre-empts
C12_Witness ==
    /\ Detected
    /\ \E mv \in PhraseOwners(text) :
           /\ mv[1] \in DictKeys(detected)
           /\ DictAt(detected, mv[1]) # mv[2]

\* extract_title has just returned
Titled == pc = "titled"

\* no pattern of the table matches the text
NoVocabulary(t) == \A k \in KeySet : MatchesOf(k, t) = {}

FallbackTitle == "Document Analysis"

\* a trimmed line that can be a title
Qualifies(line) ==
    /\ Len(line) > 10
    /\ Len(line) < 200
    /\ \A word \in {"abstract", "summary", "introduction", "description"} :
           ~Contains(lower(line), word)

\* the numbers of the lines of the text that can be a title
QualifyingLines(t) ==
    LET lines == Split(t, "\n")
    IN  {i \in 1..Len(lines) : Qualifies(strip(lines[i]))}

\* the title the text is to get: its first qualifying line, trimmed, or the fallback
ExpectedTitle(t) ==
    LET found == QualifyingLines(t)
    IN  IF found = {} THEN FallbackTitle
        ELSE strip(Split(t, "\n")[CHOOSE i \in found : \A j \in found : i <= j])

C15_FirstQualifyingLine ==
    Titled =>
        /\ title = ExpectedTitle(text)
        /\ QualifyingLines(text) = {} <=> title = FallbackTitle

\* the title is the third line or a later one, after a line that is too short and a
\* line with a header word
C15_Witness ==
    /\ Titled
    /\ title # FallbackTitle
    /\ LET lines == Split(text, "\n")
       IN  /\ \A i \in QualifyingLines(text) : i > 2
           /\ \E i \in 1..2 : Len(strip(lines[i])) \in 1..10
           /\ \E i \in 1..2 : Len(strip(lines[i])) > 10 /\ Contains(lower(lines[i]), "abstract")

\* C22: no pattern of the table is dead.  A text in which a pattern matches
\* holds the words of its phrase as whole words, and so every pattern that
\* matches in the phrase alone; the pattern therefore yields its value in
\* some text exactly if it does in its phrase alone: for every pattern whose
\* phrase is the text, the metric is inferred with the pattern's value.
C22_NoDeadPattern ==
    Detected =>
        \A mv \in PhraseOwners(text) : DictGet(detected, mv[1], "") = mv[2]

\* the letters and digits
Alphanumeric == Chars(LowerCase) \cup Chars(UpperCase) \cup Chars(Digits)

\* the words of s: its maximal runs without whitespace, in order
WordsOf(s) ==
    LET inked(p) == p >= 1 /\ p <= Len(s) /\ SubSeq(s, p, p) \notin SpaceChars
        first == {p \in 1..Len(s) : inked(p) /\ ~inked(p - 1)}
        last == {p \in 1..Len(s) : inked(p) /\ ~inked(p + 1)}
        kth(set, k) == CHOOSE p \in set : Cardinality({q \in set : q < p}) = k - 1
    IN  [k \in 1..Cardinality(first) |-> SubSeq(s, kth(first, k), kth(last, k))] \o <<>>

\* whether the words of a pattern stand in t as whole words: one after the
\* other with only whitespace between them, no letter or digit right before
\* the first or right after the last
StandsAsWholeWords(words, t) ==
    LET head == words[1]
        tail == words[Len(words)]
        from == {p \in 1..Len(t) : p + Len(head) - 1 <= Len(t)
                                   /\ SubSeq(t, p, p + Len(head) - 1) = head
                                   /\ CharAt(t, p - 1) \notin Alphanumeric}
        upto == {q \in 1..Len(t) : q - Len(tail) + 1 >= 1
                                   /\ SubSeq(t, q - Len(tail) + 1, q) = tail
                                   /\ CharAt(t, q + 1) \notin Alphanumeric}
    IN  \E p \in from : \E q \in upto : p <= q /\ WordsOf(SubSeq(t, p, q)) = words

\* C21: a value is inferred for a metric only if one of its patterns stands
\* in the text as whole words, so a pattern word that occurs only inside a
\* longer alphanumeric word is no evidence; and the text in upper case and in
\* lower case yields the same metrics as the text itself.
C21_WholeWordsAnyCase ==
    Detected =>
        /\ \A n \in 1..Len(detected) :
               LET patterns == PatternTable[detected[n][1]][detected[n][2]]
               IN  \E j \in 1..Len(patterns) : StandsAsWholeWords(patterns[j], lower(text))
        /\ detect_cvss_metrics(cvss_patterns, upper(text)) = detected
        /\ detect_cvss_metrics(cvss_patterns, lower(text)) = detected

\* a text of mixed case with "local" only inside "locally" and "high" only
\* inside "highlight": no attack vector and no high impact is inferred, and
\* "Unchanged" gives the scope U, not C
C21_Witness ==
    /\ Detected
    /\ text # lower(text) /\ text # upper(text)
    /\ Contains(lower(text), "locally") /\ Contains(lower(text), "highlight")
    /\ "AV" \notin DictKeys(detected)
    /\ \A n \in 1..Len(detected) : detected[n][2] # "H"
    /\ DictGet(detected, "S", "") = "U"

-----------------------------------------------------------------------------
(* Properties of process_document, under SpecProcess.                       *)

Processed == pc = "processed"

\* the text of the file can be extracted: the name ends in .docx or .pdf in any letter
\* case, and the library for that type is there and reads the file
Extractable ==
    /\ DEPENDENCIES_AVAILABLE
    /\ \/ endswith(lower(filename), ".docx") /\ file_content.kind = "docx"
       \/ endswith(lower(filename), ".pdf") /\ file_content.kind \in {"pdf", "pdf_plain"}

\* C13: process_document returns in every case; when the text cannot be extracted the
\* result has success = False, an error message and the file name and nothing else;
\* otherwise it has success = True, the metrics, the CVE id and the title of the text.
C13_FailureIsNotSuccess ==
    Processed =>
        IF Extractable
        THEN /\ DictAt(document_analysis, "success") = TRUE
             /\ {"metrics", "cve_id", "title"} \subseteq DictKeys(document_analysis)
             /\ "error" \notin DictKeys(document_analysis)
             /\ DictAt(document_analysis, "metrics")
                    = detect_cvss_metrics(cvss_patterns, file_content.text)
             /\ DictAt(document_analysis, "cve_id") = extract_cve_id(file_content.text)
             /\ DictAt(document_analysis, "title") = extract_title(file_content.text)
        ELSE /\ DictKeys(document_analysis) = {"success", "error", "filename"}
             /\ DictAt(document_analysis, "success") = FALSE
             /\ DictAt(document_analysis, "error") # ""
             /\ DictAt(document_analysis, "filename") = filename

\* a file with a supported name that no library reads
C13_Witness ==
    /\ Processed
    /\ DEPENDENCIES_AVAILABLE
    /\ endswith(lower(filename), ".pdf")
    /\ file_content.kind = "junk"
    /\ DictAt(document_analysis, "success") = FALSE

-----------------------------------------------------------------------------
(* Properties of extract_cve_id, under SpecInfer.                           *)

\* extract_cve_id has just returned
Extracted == pc = "extracted"

AllDigits(s) == \A i \in 1..Len(s) : SubSeq(s, i, i) \in Chars("0123456789")

\* CVE-<4 digits>-<4 to 7 digits>, CVE in any letter case
WellFormedCve(s) ==
    /\ Len(s) \in 13..16
    /\ SubSeq(s, 1, 4) \in {c \o v \o e \o "-" : c \in {"C", "c"}, v \in {"V", "v"},
                                                  e \in {"E", "e"}}
    /\ AllDigits(SubSeq(s, 5, 8))
    /\ SubSeq(s, 9, 9) = "-"
    /\ AllDigits(SubSeq(s, 10, Len(s)))

\* the well-formed identifiers in the text: <<start, length>>
CveSubstrings(t) ==
    {pn \in (1..Len(t)) \X (13..16) :
         /\ pn[1] + pn[2] - 1 <= Len(t)
         /\ WellFormedCve(SubSeq(t, pn[1], pn[1] + pn[2] - 1))}

\* C14: extract_cve_id returns null exactly when the text holds no well-formed
\* identifier; otherwise it returns the leftmost one as it is written in the text,
\* with all the digits, up to seven, of its sequence number.
C14_LeftmostCveId ==
    Extracted =>
        LET found == CveSubstrings(text)
        IN  /\ cve_id = <<>> <=> found = {}
            /\ found # {} =>
                   \E pn \in found :
                       /\ \A qm \in found : pn[1] < qm[1] \/ (pn[1] = qm[1] /\ pn[2] >= qm[2])
                       /\ cve_id = <<SubSeq(text, pn[1], pn[1] + pn[2] - 1)>>

\* the text holds two identifiers and the first one is not in upper case
C14_Witness ==
    /\ Extracted
    /\ cve_id # <<>>
    /\ cve_id[1] # upper(cve_id[1])
    /\ \E pn, qm \in CveSubstrings(text) : pn[1] # qm[1]

-----------------------------------------------------------------------------
(* Properties of round_up and severity_from_score, under SpecScale.         *)

\* C18: every score from 0.0 to 10.0 has the severity of its range: 0.0 None, above 0.0
\* and below 4.0 Low, from 4.0 and below 7.0 Medium, from 7.0 and below 9.0 High, from
\* 9.0 to 10.0 Critical.
C18_SeverityRangesContiguous ==
    (pc = "rated" /\ DLe(arg, DInt(10))) =>
        severity = IF DEq(arg, DInt(0)) THEN "None"
                   ELSE IF DCmp(arg, DInt(4)) < 0 THEN "Low"
                   ELSE IF DCmp(arg, DInt(7)) < 0 THEN "Medium"
                   ELSE IF DCmp(arg, DInt(9)) < 0 THEN "High"
                   ELSE "Critical"

\* C19: round_up returns the least multiple of 0.1 that is not below its argument: the
\* argument itself when that is a multiple of 0.1, and less than 0.1 above it
\* otherwise; of a value that is at most 10, as min(raw, 10) is, it is at most 10.
C19_RoundUpNeverRoundsDown ==
    pc = "rounded" =>
        /\ DIsInt(DMul(rounded, DInt(10)))
        /\ DLe(arg, rounded)
        /\ DCmp(DSub(rounded, arg), Lit(0, 100)) < 0
        /\ DIsInt(DMul(arg, DInt(10))) => DEq(rounded, arg)
        /\ DLe(arg, DInt(10)) => DLe(rounded, DInt(10))

\* 4.01 becomes 4.1
C19_Witness ==
    /\ pc = "rounded"
    /\ DEq(arg, Lit(4, 10))
    /\ DEq(rounded, Lit(4, 100))
-----------------------------------------------------------------------------
(* Properties of requests served at the same time, under SpecThreads.       *)

\* whether request r is past the step that leaves it at one of the positions
Past(r, positions) == req[r].pc \in positions

\* what the four functions return for a text when nothing else runs
Alone(t) ==
    LET d == detect_cvss_metrics(PatternTable, t)
    IN  [detected |-> d,
         cve_id |-> extract_cve_id(t),
         title |-> extract_title(t),
         result |-> calculate_base_score(FormMetrics(Prefill(<<>>, d)))]

\* C16: however the steps of concurrent invocations of detect_cvss_metrics,
\* extract_cve_id, extract_title and calculate_base_score on the shared
\* processor interleave, the shared pattern table is never written and each
\* invocation returns what it returns when it runs alone.
C16_ConcurrentCallsAreIndependent ==
    /\ cvss_patterns = PatternTable
    /\ \A r \in Requests :
           LET alone == Alone(req[r].text)
           IN  /\ Past(r, {"cve", "title", "score", "done"}) =>
                      req[r].detected = alone.detected
               /\ Past(r, {"title", "score", "done"}) => req[r].cve_id = alone.cve_id
               /\ Past(r, {"score", "done"}) => req[r].title = alone.title
               /\ Past(r, {"done"}) => req[r].result = alone.result

\* two requests with different documents, each of which ran while the other
\* was under way, both finished, with different results
C16_Witness ==
    /\ \A r \in Requests : req[r].pc = "done" /\ req[r].overlapped
    /\ \E r, u \in Requests :
           /\ req[r].text # req[u].text
           /\ req[r].detected # req[u].detected
           /\ req[r].detected # <<>>
           /\ req[r].cve_id # req[u].cve_id
           /\ req[r].result # req[u].result

-----------------------------------------------------------------------------
(* Properties of handle_evaluation, under SpecUpload.                       *)

Stored == pc = "stored"

\* the row insert_evaluation wrote for the request
Persisted == evaluations[Len(evaluations)]

\* the metrics the analysis of the uploaded document inferred
Inferred ==
    IF Succeeded(document_analysis) THEN DictAt(document_analysis, "metrics") ELSE <<>>

\* the metrics for which the form carries a value and the analysis inferred one
Contested == KeySet \cap DictKeys(form_data) \cap DictKeys(Inferred)

\* the string a field of the request holds when the handler reads it: the
\* title and the CVE id of a successful analysis, otherwise what was submitted
SubmittedOrPrefilled(key) ==
    IF content_type = Multipart /\ Succeeded(document_analysis) /\ key = "title"
       /\ DictAt(document_analysis, "title") # ""
    THEN DictAt(document_analysis, "title")
    ELSE IF content_type = Multipart /\ Succeeded(document_analysis) /\ key = "cve_id"
            /\ DictAt(document_analysis, "cve_id") # <<>>
    THEN DictAt(document_analysis, "cve_id")[1]
    ELSE DictGet(form_data, key, "")

\* C26: the title, the CVE id and the source persisted for a request are the
\* full strings submitted in the form or pre-filled from the analysis of the
\* document, stripped, for a multipart request as for any other.
C26_FullStringsPersisted ==
    Stored =>
        /\ Persisted.title = strip(SubmittedOrPrefilled("title"))
        /\ Persisted.cve_id = strip(SubmittedOrPrefilled("cve_id"))
        /\ Persisted.source = strip(SubmittedOrPrefilled("source"))

-----------------------------------------------------------------------------
\* Properties of registration, under SpecRegister

\* the rows of users whose address is this one, letter case apart
SameAddress(address) == SelectSeq(users, LAMBDA row : lower(row.email) = lower(address))

\* a register_user call has just returned
Registering == pc = "register" /\ outcome.op = "register_user"

\* C29: no two users have the same e-mail address, letter case apart; a
\* register_user that fails adds no user and fails only for an address that
\* is taken; every user comes from one successful call, so of the calls for
\* one address, interleaved or not, one succeeds and every other returns
\* success False.
C29_OneUserPerEmail ==
    pc = "register" =>
        /\ \A i, j \in 1..Len(users) :
               lower(users[i].email) = lower(users[j].email) => i = j
        /\ Len(ledger.registered) = Len(users)
        /\ \A n \in 1..Len(users) : users[n].email = lower(ledger.registered[n])
        /\ Registering =>
               /\ Len(SameAddress(outcome.email)) = 1
               /\ outcome.ret.success \in BOOLEAN
               /\ outcome.ret.success = outcome.changed
               /\ ~outcome.ret.success => "error" \in DOMAIN outcome.ret

\* two calls for case variants of one address both passed the check; the one
\* that inserted second has just returned the failure of the constraint, and
\* the user is there once, under the address of the first
C29_Witness ==
    /\ Registering
    /\ ~outcome.ret.success
    /\ outcome.ret.error = "UNIQUE constraint failed: users.email"
    /\ ~outcome.changed
    /\ Len(SameAddress(outcome.email)) = 1
    /\ \E n \in 1..Len(ledger.registered) :
           /\ ledger.registered[n] # outcome.email
           /\ lower(ledger.registered[n]) = lower(outcome.email)

-----------------------------------------------------------------------------
\* Properties of sessions, under SpecAuth

\* the rows of user_sessions with this token
SessionsOf(session_token) ==
    SelectSeq(user_sessions, LAMBDA row : row.session_token = session_token)

\* the successful authenticate_user calls that drew this token
CreatedAs(session_token) == { c \in ledger.created : c.session_token = session_token }

\* whether this user of the table is active as the class sees it
Active(user_id) == auth_class = AuthManager => users[user_id].is_active

\* what validate_session would return for the token in this state
Validated(session_token) ==
    validate_session(auth_class, users, user_sessions, now, session_token).ret

\* a call of this operation has just returned
JustReturned(op) == pc = "auth" /\ outcome.op = op

\* the token just validated was created, and its seven days have passed
PresentedExpired ==
    /\ JustReturned("validate_session")
    /\ \E c \in CreatedAs(outcome.session_token) : now > c.at + SessionDays
    /\ outcome.session_token \notin ledger.logged_out

\* a token is accepted only if a successful authenticate_user created it for
\* the user returned, it was not logged out, its seven days have not passed
\* and the user is active; a token once rejected as expired is rejected in
\* every later state
ValidOnlyIfLive ==
    /\ \A session_token \in 0..MaxTokens :
           Validated(session_token) # None =>
               /\ session_token \notin ledger.logged_out
               /\ session_token \notin ledger.expired
               /\ \E c \in CreatedAs(session_token) :
                      /\ c.user_id = Validated(session_token).user_id
                      /\ now <= c.at + SessionDays
                      /\ Active(c.user_id)
    /\ JustReturned("validate_session") /\ outcome.ret # None =>
           /\ outcome.ret = Validated(outcome.session_token)
           /\ ~outcome.changed

\* C27, as stated: a token is valid only if created for the user, not logged
\* out, not expired and the user active; validating an expired token deletes
\* its session and returns None; a token rejected as expired stays rejected.
C27_ExpiredValidationDeletes ==
    pc = "auth" =>
        /\ ValidOnlyIfLive
        /\ PresentedExpired =>
               /\ outcome.ret = None
               /\ SessionsOf(outcome.session_token) = <<>>

\* C27, amended: as stated, except that validating an expired token deletes
\* its session only when the user of the session is active; for a deactivated
\* user of AuthManager the call returns None and leaves the row in place.
C27_SessionValidity ==
    pc = "auth" =>
        /\ ValidOnlyIfLive
        /\ PresentedExpired =>
               /\ outcome.ret = None
               /\ outcome.changed => outcome.session_token \in ledger.expired
               /\ \A c \in CreatedAs(outcome.session_token) :
                      IF Active(c.user_id)
                      THEN SessionsOf(outcome.session_token) = <<>>
                      ELSE ~outcome.changed

\* on the eighth day the token of an active user has just been validated:
\* None, and its session is gone; the expired session of a deactivated user,
\* validated before, is still in the table
C27_Witness ==
    /\ PresentedExpired
    /\ outcome.ret = None
    /\ outcome.changed
    /\ outcome.session_token \in ledger.expired
    /\ SessionsOf(outcome.session_token) = <<>>
    /\ \E n \in 1..Len(user_sessions) :
           /\ ~Active(user_sessions[n].user_id)
           /\ Expired(now, user_sessions[n].expires_at)

\* C28: a token that logout_user was called with is rejected by
\* validate_session in every later state, whatever was done in between, and
\* the call returns True and removes the sessions of that token only.
C28_LoggedOutForever ==
    pc = "auth" =>
        /\ \A session_token \in ledger.logged_out :
               /\ Validated(session_token) = None
               /\ SessionsOf(session_token) = <<>>
        /\ JustReturned("logout_user") =>
               /\ outcome.ret = TRUE
               /\ outcome.session_token \in ledger.logged_out
               /\ user_sessions =
                      SelectSeq(outcome.before,
                                LAMBDA row : row.session_token # outcome.session_token)

\* a user logged in twice and logged the first session out; after it, the
\* second token has just been validated and gave the user, and the first
\* gives None
C28_Witness ==
    /\ JustReturned("validate_session")
    /\ outcome.ret # None
    /\ \E session_token \in ledger.logged_out :
           /\ session_token # outcome.session_token
           /\ \E c \in CreatedAs(session_token) : c.user_id = outcome.ret.user_id
           /\ Validated(session_token) = None

\* the user an authenticate_user call named, if the table has one
Named == UsersByEmail(users, lower(outcome.email))

\* whether the call just returned gave the password of an active user
Verified ==
    /\ Named # <<>>
    /\ verify_password(outcome.password, Named[1].password_hash)
    /\ Active(Named[1].id)

\* C30: an authenticate_user for an unknown address, with a wrong password or
\* for a deactivated account returns success False and no token and leaves
\* both tables as they were; a success comes with a verified password and one
\* new session; every session in the table was created by a success.
C30_FailedLoginChangesNothing ==
    pc = "auth" =>
        /\ JustReturned("authenticate_user") =>
               /\ outcome.ret.success = Verified
               /\ outcome.ret.success = outcome.changed
               /\ ~outcome.ret.success =>
                      /\ "session_token" \notin DOMAIN outcome.ret
                      /\ outcome.ret.error \in {"Invalid credentials",
                                                "Account is deactivated"}
               /\ outcome.ret.success =>
                      /\ Len(SessionsOf(outcome.ret.session_token)) = 1
                      /\ SessionsOf(outcome.ret.session_token)[1].user_id = Named[1].id
                      /\ auth_class = AuthManager => Named[1].last_login = <<now>>
        /\ \A n \in 1..Len(user_sessions) :
               \E c \in ledger.created :
                   /\ c.session_token = user_sessions[n].session_token
                   /\ c.user_id = user_sessions[n].user_id

\* a user with a session is deactivated and has just been refused with the
\* right password: the session is the only one, and last_login is that of the
\* first login
C30_Witness ==
    /\ JustReturned("authenticate_user")
    /\ ~outcome.ret.success
    /\ outcome.ret.error = "Account is deactivated"
    /\ outcome.password = Password
    /\ ~outcome.changed
    /\ now > 0
    /\ Named[1].last_login = <<0>>
    /\ Len(user_sessions) = 1
    /\ user_sessions[1].user_id = Named[1].id

=============================================================================
